---- MODULE Spec2Model ----
(***************************************************************************)
(* A model of the pen-tool geometry core: the path store (PathManager),    *)
(* the handle constraint engine (HandleManager) and the editing state      *)
(* machine (EditMode).                                                     *)
(*                                                                         *)
(* Numbers.  The program computes with IEEE doubles.  The model computes   *)
(* with exact rationals [n |-> numerator, d |-> denominator > 0] in lowest *)
(* terms, so every equality below is an equality of real numbers; the      *)
(* inputs are drawn from sets on which the doubles are exact as well       *)
(* (small integers, halves) or on which the program's square roots are     *)
(* integers (handle vectors that are multiples of Pythagorean triples).    *)
(***************************************************************************)
EXTENDS Integers, Sequences, FiniteSets, TLC

VARIABLES
    paths,              \* PathManager.paths: the paths in Map insertion order
    idCounter,          \* PathManager.idCounter
    minted,             \* history: every id generateId has returned, in order
    selectedPoints,     \* EditMode.selectedPoints: set of anchor ids
    hoverPreviewPoint,  \* EditMode.hoverPreviewPoint: a point or Null
    hoverPreviewPath,   \* EditMode.hoverPreviewPath: a path id or Null
    isDragging,         \* EditMode.isDragging
    dragType,           \* EditMode.dragType: "point", "handle-in",
                        \* "handle-out" or None
    dragTarget,         \* EditMode.dragTarget: Null or [path, point], the
                        \* dragged anchor as it is now, also when it has
                        \* left its path, and the id of its path
    dragStartPos,       \* EditMode.dragStartPos: a point or Null
    initialPointPos,    \* EditMode.initialPointPos: a point or Null
    isShiftPressed,     \* EditMode.isShiftPressed
    isAltPressed,       \* EditMode.isAltPressed
    originalMirrorMode, \* EditMode.originalMirrorMode: a mode or None
    dragOrigin,         \* history: Null, or for the anchor drag in progress
                        \* the pointer position and the anchor position at
                        \* its pointer-down, and the anchor's id
    penState,           \* PenTool: "idle", "drawing" or "dragging-handle"
    currentPath,        \* PenTool: the id of the path in progress, or None
    mouseDownPos,       \* PenTool: the position of the pointer-down whose
                        \* pointer-up is still to come, or Null
    last                \* history: the last operation, its inputs and result

vars == <<paths, idCounter, minted, selectedPoints, hoverPreviewPoint,
          hoverPreviewPath, isDragging, dragType, dragTarget, dragStartPos,
          initialPointPos, isShiftPressed, isAltPressed, originalMirrorMode,
          dragOrigin, penState, currentPath, mouseDownPos, last>>

storeVars == <<paths, idCounter, minted>>
hoverVars == <<hoverPreviewPoint, hoverPreviewPath>>
dragVars == <<isDragging, dragType, dragTarget, dragStartPos, initialPointPos,
              originalMirrorMode>>
keyVars == <<isShiftPressed, isAltPressed>>
editVars == <<selectedPoints, hoverVars, dragVars, keyVars, dragOrigin>>
penVars == <<penState, currentPath, mouseDownPos>>

----------------------------------------------------------------------------
(* Bounds of the model *)

\* handle vectors are UnitDirs scaled by 1..MaxScale
MaxScale == 2

\* subdivision parameters t are the fractions k/TDen strictly between 0 and 1
TDen == 4

\* the paths queried in SpecGeom have at most MaxPoints anchors
MaxPoints == 3

\* the store operations of Spec mint at most MaxIds ids
MaxIds == 3

----------------------------------------------------------------------------
(* Exact rational arithmetic standing for the program's number type *)

Null == [null |-> TRUE]

\* null in a field whose other values are strings
None == "null"

\* the drawing machine at rest, with no path in progress
PenIdle ==
    /\ penState = "idle"
    /\ currentPath = None
    /\ mouseDownPos = Null

\* the interaction state of a fresh EditMode, and after onMouseUp
NoDrag ==
    /\ isDragging = FALSE
    /\ dragType = None
    /\ dragTarget = Null
    /\ dragStartPos = Null
    /\ initialPointPos = Null
    /\ originalMirrorMode = None

Abs(a) == IF a < 0 THEN -a ELSE a

RECURSIVE GCD(_, _)
GCD(a, b) == IF b = 0 THEN a ELSE GCD(b, a % b)

\* the rational n/d (d > 0) in lowest terms
Norm(n, d) ==
    LET g == GCD(Abs(n), d)
    IN  [n |-> n \div g, d |-> d \div g]

I(k) == [n |-> k, d |-> 1]

\* the two values of the number type that are no fractions
NaN == [nan |-> TRUE]
Undefined == [undefined |-> TRUE]

IsNum(a) == a # NaN /\ a # Undefined

RNeg(a) == IF IsNum(a) THEN [n |-> -a.n, d |-> a.d] ELSE NaN

RAdd(a, b) ==
    IF IsNum(a) /\ IsNum(b)
    THEN LET g == GCD(a.d, b.d)
             l == (a.d \div g) * b.d
         IN  Norm(a.n * (l \div a.d) + b.n * (l \div b.d), l)
    ELSE NaN

RSub(a, b) == RAdd(a, RNeg(b))

RMul(a, b) ==
    IF IsNum(a) /\ IsNum(b)
    THEN LET g1 == GCD(Abs(a.n), b.d)
             g2 == GCD(Abs(b.n), a.d)
         IN  IF a.n = 0 \/ b.n = 0 THEN I(0)
             ELSE [n |-> (a.n \div g1) * (b.n \div g2),
                   d |-> (a.d \div g2) * (b.d \div g1)]
    ELSE NaN

\* a / b for b # 0
RDiv(a, b) ==
    IF IsNum(a) /\ IsNum(b)
    THEN IF b.n > 0 THEN RMul(a, [n |-> b.d, d |-> b.n])
         ELSE RMul(a, [n |-> -b.d, d |-> -b.n])
    ELSE NaN

\* a < b; false when either side is NaN
RLess(a, b) ==
    /\ IsNum(a)
    /\ IsNum(b)
    /\ LET g == GCD(a.d, b.d)
       IN  a.n * (b.d \div g) < b.n * (a.d \div g)

RLeq(a, b) == IsNum(a) /\ IsNum(b) /\ (a = b \/ RLess(a, b))

RECURSIVE ISqrtFrom(_, _)
ISqrtFrom(k, r) == IF (r + 1) * (r + 1) > k THEN r ELSE ISqrtFrom(k, r + 1)

\* the integer square root of a natural number
ISqrt(k) == ISqrtFrom(k, 0)

\* Math.sqrt: exact when numerator and denominator are perfect squares,
\* which holds for every argument that occurs in the model (SqrtExact)
RSqrt(a) == IF IsNum(a) THEN Norm(ISqrt(a.n), ISqrt(a.d)) ELSE NaN

IsSquare(a) ==
    /\ IsNum(a)
    /\ ISqrt(a.n) * ISqrt(a.n) = a.n
    /\ ISqrt(a.d) * ISqrt(a.d) = a.d

----------------------------------------------------------------------------
(* PointUtils *)

Pt(x, y) == [x |-> I(x), y |-> I(y)]

add(p1, p2) == [x |-> RAdd(p1.x, p2.x), y |-> RAdd(p1.y, p2.y)]

subtract(p1, p2) == [x |-> RSub(p1.x, p2.x), y |-> RSub(p1.y, p2.y)]

negate(p) == [x |-> RNeg(p.x), y |-> RNeg(p.y)]

\* x ** 2 + y ** 2 of a vector
SquaredLength(p) == RAdd(RMul(p.x, p.x), RMul(p.y, p.y))

\* the square of PointUtils.distance; Math.sqrt is monotonic, so the
\* program's comparisons of distances are comparisons of these squares
SquaredDistance(p1, p2) == SquaredLength(subtract(p2, p1))

----------------------------------------------------------------------------
(* HandleManager *)

Mirrored == "mirrored"
AngleLocked == "angle-locked"
Independent == "independent"
HandleMirrorMode == {Mirrored, AngleLocked, Independent}

Handle(pos) == [position |-> pos, visible |-> TRUE]

\* handle?.visible
Visible(h) == h # Null /\ h.visible

\* MirroredTarget without `targetHandle.visible = true`
MirroredTargetKeepsVisibility(sourceHandle, targetHandle) ==
    LET mirrored == negate(sourceHandle.position)
    IN  IF targetHandle = Null THEN Handle(mirrored)
        ELSE [targetHandle EXCEPT !.position = mirrored]

\* case Mirrored: the target handle after mirroring a visible source
MirroredTarget(sourceHandle, targetHandle) ==
    LET mirrored == negate(sourceHandle.position)
    IN  IF targetHandle = Null THEN Handle(mirrored)
        ELSE [targetHandle EXCEPT !.position = mirrored, !.visible = TRUE]

\* AngleLockedTarget with the scale inverted (sourceLength / targetLength)
AngleLockedTargetInvertedScale(sourceHandle, targetHandle) ==
    IF ~Visible(targetHandle)
    THEN Handle(negate(sourceHandle.position))
    ELSE LET sourceLength == RSqrt(SquaredLength(sourceHandle.position))
             targetLength == RSqrt(SquaredLength(targetHandle.position))
         IN  IF RLess(I(0), sourceLength) /\ RLess(I(0), targetLength)
             THEN LET scale == RDiv(sourceLength, targetLength)
                  IN  [targetHandle EXCEPT !.position =
                         [x |-> RMul(RNeg(sourceHandle.position.x), scale),
                          y |-> RMul(RNeg(sourceHandle.position.y), scale)]]
             ELSE targetHandle

\* case AngleLocked: the target handle after mirroring a visible source
AngleLockedTarget(sourceHandle, targetHandle) ==
    IF ~Visible(targetHandle)
    THEN Handle(negate(sourceHandle.position))
    ELSE LET sourceLength == RSqrt(SquaredLength(sourceHandle.position))
             targetLength == RSqrt(SquaredLength(targetHandle.position))
         IN  IF RLess(I(0), sourceLength)
             THEN LET scale == RDiv(targetLength, sourceLength)
                  IN  [targetHandle EXCEPT !.position =
                         [x |-> RMul(RNeg(sourceHandle.position.x), scale),
                          y |-> RMul(RNeg(sourceHandle.position.y), scale)]]
             ELSE targetHandle

\* MirrorTarget where Independent falls into the Mirrored case
MirrorTargetIgnoresIndependent(mode, sourceHandle, targetHandle) ==
    CASE mode = AngleLocked -> AngleLockedTarget(sourceHandle, targetHandle)
      [] OTHER -> MirroredTarget(sourceHandle, targetHandle)

\* switch (anchorPoint.mirrorMode): the target handle per mode
MirrorTarget(mode, sourceHandle, targetHandle) ==
    CASE mode = Mirrored -> MirroredTarget(sourceHandle, targetHandle)
      [] mode = AngleLocked -> AngleLockedTarget(sourceHandle, targetHandle)
      [] OTHER -> targetHandle

mirrorHandle(anchorPoint, mirrorToOut) ==
    LET sourceHandle == IF mirrorToOut THEN anchorPoint.handleIn
                        ELSE anchorPoint.handleOut
        targetHandle == IF mirrorToOut THEN anchorPoint.handleOut
                        ELSE anchorPoint.handleIn
        target == MirrorTarget(anchorPoint.mirrorMode, sourceHandle,
                               targetHandle)
    IN  IF ~Visible(sourceHandle) THEN anchorPoint
        ELSE IF mirrorToOut THEN [anchorPoint EXCEPT !.handleOut = target]
        ELSE [anchorPoint EXCEPT !.handleIn = target]

\* the handle after `handle.position = relativePosition; handle.visible = true`
\* (or after its creation when it was absent)
SetHandle(handle, relativePosition) ==
    IF handle = Null THEN Handle(relativePosition)
    ELSE [handle EXCEPT !.position = relativePosition, !.visible = TRUE]

\* updateHandle storing the new position itself, not its offset from the
\* anchor
updateHandleStoresAbsolute(anchorPoint, isOutHandle, newHandlePosition) ==
    LET relativePosition == newHandlePosition
    IN  IF isOutHandle
        THEN mirrorHandle([anchorPoint EXCEPT !.handleOut =
                             SetHandle(@, relativePosition)], FALSE)
        ELSE mirrorHandle([anchorPoint EXCEPT !.handleIn =
                             SetHandle(@, relativePosition)], TRUE)

updateHandle(anchorPoint, isOutHandle, newHandlePosition) ==
    LET relativePosition == subtract(newHandlePosition, anchorPoint.position)
    IN  IF isOutHandle
        THEN mirrorHandle([anchorPoint EXCEPT !.handleOut =
                             SetHandle(@, relativePosition)], FALSE)
        ELSE mirrorHandle([anchorPoint EXCEPT !.handleIn =
                             SetHandle(@, relativePosition)], TRUE)

\* setMirrorMode taking the in-handle as the source when both are visible
setMirrorModePrefersIn(anchorPoint, mode) ==
    LET a == [anchorPoint EXCEPT !.mirrorMode = mode]
    IN  IF mode # Independent
        THEN IF Visible(a.handleIn) THEN mirrorHandle(a, TRUE)
             ELSE IF Visible(a.handleOut) THEN mirrorHandle(a, FALSE)
             ELSE a
        ELSE a

setMirrorMode(anchorPoint, mode) ==
    LET a == [anchorPoint EXCEPT !.mirrorMode = mode]
    IN  IF mode # Independent
        THEN IF Visible(a.handleOut) THEN mirrorHandle(a, FALSE)
             ELSE IF Visible(a.handleIn) THEN mirrorHandle(a, TRUE)
             ELSE a
        ELSE a

removeHandles(anchorPoint) ==
    [anchorPoint EXCEPT !.handleIn = Null, !.handleOut = Null]

----------------------------------------------------------------------------
(* Text.  A program string is modelled as the sequence of its characters. *)

Digit == <<"0", "1", "2", "3", "4", "5", "6", "7", "8", "9">>

RECURSIVE NatToString(_)
NatToString(k) ==
    IF k < 10 THEN <<Digit[k + 1]>>
    ELSE NatToString(k \div 10) \o <<Digit[(k % 10) + 1]>>

\* the decimal digits of r/d after the point (r < d); a double prints at most
\* 17 significant digits
RECURSIVE FractionDigits(_, _, _)
FractionDigits(r, d, room) ==
    IF r = 0 \/ room = 0 THEN <<>>
    ELSE <<Digit[((r * 10) \div d) + 1]>>
         \o FractionDigits((r * 10) % d, d, room - 1)

\* the least k with m * 10^k >= d (0 < m): the number of the decimal place
\* of the first significant digit of m/d, 0 when m/d >= 1
RECURSIVE DecimalShift(_, _)
DecimalShift(m, d) == IF m >= d THEN 0 ELSE 1 + DecimalShift(m * 10, d)

\* m * 10^k
RECURSIVE ShiftLeft(_, _)
ShiftLeft(m, k) == IF k = 0 THEN m ELSE ShiftLeft(m * 10, k - 1)

\* `${x}` for a number x: decimal notation from 1e-6 on, the digits and an
\* exponent below that (magnitudes from 1e21 on are not modelled)
NumberToString(a) ==
    IF a = NaN THEN <<"N", "a", "N">>
    ELSE IF a = Undefined
    THEN <<"u", "n", "d", "e", "f", "i", "n", "e", "d">>
    ELSE
    LET shift == IF a.n = 0 THEN 0 ELSE DecimalShift(Abs(a.n), a.d)
        exponent == shift >= 7
        m == IF exponent THEN ShiftLeft(Abs(a.n), shift) ELSE Abs(a.n)
        whole == NatToString(m \div a.d)
        frac == FractionDigits(m % a.d, a.d, 17)
    IN  (IF a.n < 0 THEN <<"-">> ELSE <<>>)
        \o whole
        \o (IF frac = <<>> THEN <<>> ELSE <<".">> \o frac)
        \o (IF exponent THEN <<"e", "-">> \o NatToString(shift) ELSE <<>>)

----------------------------------------------------------------------------
(* PathManager: the store *)

\* generateId without the increment
generateIdKeepsCounter(counter) == counter

\* `point-${this.idCounter++}`: the id minted when the counter is k
MintedId(k) == <<"p", "o", "i", "n", "t", "-">> \o NatToString(k)

\* the counter after generateId
generateId(counter) == counter + 1

\* fill: null (style strings are opaque values, never read by the core)
NoFill == "null"

NewPath(id) ==
    [id |-> id, anchorPoints |-> <<>>, closed |-> FALSE, fill |-> NoFill,
     stroke |-> "#000000", strokeWidth |-> 2, strokeCapStart |-> "round",
     strokeCapEnd |-> "round", selected |-> FALSE]

\* handleIn/handleOut arguments are relative points or Null
NewAnchor(id, position, handleIn, handleOut) ==
    [id |-> id, position |-> position,
     handleIn |-> IF handleIn # Null THEN Handle(handleIn) ELSE Null,
     handleOut |-> IF handleOut # Null THEN Handle(handleOut) ELSE Null,
     mirrorMode |-> Mirrored, cornerRadius |-> 0, selected |-> FALSE]

\* Array.prototype.splice(index, 0, item) for 0 <= index <= length
InsertAt(s, index, item) ==
    SubSeq(s, 1, index) \o <<item>> \o SubSeq(s, index + 1, Len(s))

\* Array.prototype.splice(index, 1), index counted from 0
RemoveAt(s, index) == SubSeq(s, 1, index) \o SubSeq(s, index + 2, Len(s))

\* findIndex(p => p.id === pointId), counted from 0; -1 when there is none
FindIndex(points, pointId) ==
    IF \E i \in 1..Len(points) : points[i].id = pointId
    THEN (CHOOSE i \in 1..Len(points) :
             /\ points[i].id = pointId
             /\ \A j \in 1..(i - 1) : points[j].id # pointId) - 1
    ELSE -1

addAnchorPoint(path, id, position, handleIn, handleOut) ==
    [path EXCEPT !.anchorPoints =
        Append(@, NewAnchor(id, position, handleIn, handleOut))]

insertAnchorPoint(path, id, index, position, handleIn, handleOut) ==
    [path EXCEPT !.anchorPoints =
        InsertAt(@, index, NewAnchor(id, position, handleIn, handleOut))]

\* splice(index, 1) without the index !== -1 test: splice(-1, 1) drops the
\* last anchor
removeAnchorPointSplicingAlways(path, pointId) ==
    LET index == FindIndex(path.anchorPoints, pointId)
    IN  IF index # -1
        THEN [path EXCEPT !.anchorPoints = RemoveAt(@, index)]
        ELSE [path EXCEPT !.anchorPoints =
                 SubSeq(@, 1, IF Len(@) = 0 THEN 0 ELSE Len(@) - 1)]

removeAnchorPoint(path, pointId) ==
    LET index == FindIndex(path.anchorPoints, pointId)
    IN  IF index # -1
        THEN [path EXCEPT !.anchorPoints = RemoveAt(@, index)]
        ELSE path

\* moveAnchorPoint that adds the anchor when the path does not hold it
moveAnchorPointAppendsMissing(path, pointId, newPosition) ==
    LET index == FindIndex(path.anchorPoints, pointId)
    IN  IF index # -1
        THEN [path EXCEPT !.anchorPoints[index + 1].position = newPosition]
        ELSE [path EXCEPT !.anchorPoints =
                 Append(@, NewAnchor(pointId, newPosition, Null, Null))]

moveAnchorPoint(path, pointId, newPosition) ==
    LET index == FindIndex(path.anchorPoints, pointId)
    IN  IF index # -1
        THEN [path EXCEPT !.anchorPoints[index + 1].position = newPosition]
        ELSE path

----------------------------------------------------------------------------
(* Inputs of the handle engine *)

\* directions with integer length 5
UnitDirs == {Pt(3, 4), Pt(-4, 3), Pt(0, -5)}

scale(p, factor) == [x |-> RMul(p.x, factor), y |-> RMul(p.y, factor)]

\* relative handle vectors offered to updateHandle, the zero vector included
HandleVecs ==
    {Pt(0, 0)} \cup {scale(u, I(k)) : u \in UnitDirs, k \in 1..MaxScale}

AnchorPositions == {Pt(0, 0), Pt(7, -2)}

----------------------------------------------------------------------------
(* Actions of the handle engine, applied to an anchor of the store *)

AnchorAt(p, i) == paths[p].anchorPoints[i]

AnchorRefs ==
    UNION {{<<p, i>> : i \in 1..Len(paths[p].anchorPoints)} :
              p \in 1..Len(paths)}

UpdateHandle ==
    \E r \in AnchorRefs, isOutHandle \in BOOLEAN, v \in HandleVecs :
        LET anchorPoint == AnchorAt(r[1], r[2])
            newHandlePosition == add(anchorPoint.position, v)
        IN  /\ paths' = [paths EXCEPT ![r[1]].anchorPoints[r[2]] =
                            updateHandle(@, isOutHandle, newHandlePosition)]
            /\ UNCHANGED penVars
            /\ last' = [op |-> "updateHandle", path |-> r[1], index |-> r[2],
                        isOutHandle |-> isOutHandle,
                        newHandlePosition |-> newHandlePosition,
                        before |-> anchorPoint]
            /\ UNCHANGED <<idCounter, minted, editVars>>

SetMirrorMode ==
    \E r \in AnchorRefs, mode \in HandleMirrorMode :
        /\ paths' = [paths EXCEPT ![r[1]].anchorPoints[r[2]] =
                        setMirrorMode(@, mode)]
        /\ UNCHANGED penVars
        /\ last' = [op |-> "setMirrorMode", path |-> r[1], index |-> r[2],
                    mode |-> mode, before |-> AnchorAt(r[1], r[2])]
        /\ UNCHANGED <<idCounter, minted, editVars>>

RemoveHandles ==
    \E r \in AnchorRefs :
        /\ paths' = [paths EXCEPT ![r[1]].anchorPoints[r[2]] =
                        removeHandles(@)]
        /\ UNCHANGED penVars
        /\ last' = [op |-> "removeHandles", path |-> r[1], index |-> r[2],
                    before |-> AnchorAt(r[1], r[2])]
        /\ UNCHANGED <<idCounter, minted, editVars>>

\* a caller of the library clears the public `visible` field of a handle
HideHandle ==
    \E r \in AnchorRefs, isOutHandle \in BOOLEAN :
        LET anchorPoint == AnchorAt(r[1], r[2])
            handle == IF isOutHandle THEN anchorPoint.handleOut
                      ELSE anchorPoint.handleIn
        IN  /\ Visible(handle)
            /\ paths' = [paths EXCEPT ![r[1]].anchorPoints[r[2]] =
                 IF isOutHandle THEN [@ EXCEPT !.handleOut.visible = FALSE]
                 ELSE [@ EXCEPT !.handleIn.visible = FALSE]]
            /\ UNCHANGED penVars
            /\ last' = [op |-> "hideHandle", path |-> r[1], index |-> r[2],
                        isOutHandle |-> isOutHandle, before |-> anchorPoint]
            /\ UNCHANGED <<idCounter, minted, editVars>>

\* the store after createPath() and one addAnchorPoint(path, position)
InitHandle ==
    /\ \E position \in AnchorPositions :
           paths = <<addAnchorPoint(NewPath(MintedId(0)), MintedId(1),
                                    position, Null, Null)>>
    /\ idCounter = 2
    /\ minted = <<MintedId(0), MintedId(1)>>
    /\ selectedPoints = {}
    /\ hoverPreviewPoint = Null
    /\ hoverPreviewPath = Null
    /\ NoDrag
    /\ isShiftPressed = FALSE
    /\ isAltPressed = FALSE
    /\ dragOrigin = Null
    /\ PenIdle
    /\ last = [op |-> "init"]

NextHandle == UpdateHandle \/ SetMirrorMode \/ RemoveHandles \/ HideHandle

SpecHandle == InitHandle /\ [][NextHandle]_vars

----------------------------------------------------------------------------
(* Claims about the handle engine (SpecHandle) *)

\* the anchor the last operation acted on, as it is now
LastAnchor == AnchorAt(last.path, last.index)

\* the handle the last updateHandle set, and its sibling, in anchor a
UpdatedHandle(a) == IF last.isOutHandle THEN a.handleOut ELSE a.handleIn
SiblingHandle(a) == IF last.isOutHandle THEN a.handleIn ELSE a.handleOut

\* P minus the anchor position, for the last updateHandle
LastRelative ==
    [x |-> RSub(last.newHandlePosition.x, last.before.position.x),
     y |-> RSub(last.newHandlePosition.y, last.before.position.y)]

Dot(a, b) == RAdd(RMul(a.x, b.x), RMul(a.y, b.y))
Cross(a, b) == RSub(RMul(a.x, b.y), RMul(a.y, b.x))

\* C1: after updateHandle on an anchor in Mirrored mode both handles are
\* visible, the updated handle is P minus the anchor position and the sibling
\* is its exact negation, whatever the sibling was before.
C1_MirroredNegation ==
    (last.op = "updateHandle" /\ last.before.mirrorMode = Mirrored) =>
        /\ Visible(UpdatedHandle(LastAnchor))
        /\ Visible(SiblingHandle(LastAnchor))
        /\ UpdatedHandle(LastAnchor).position = LastRelative
        /\ SiblingHandle(LastAnchor).position =
               [x |-> RNeg(LastRelative.x), y |-> RNeg(LastRelative.y)]

\* C1 witness: a Mirrored anchor whose sibling was present but invisible, and
\* not the negation of the new vector, has just been updated
C1_Witness ==
    /\ last.op = "updateHandle"
    /\ last.before.mirrorMode = Mirrored
    /\ SiblingHandle(last.before) # Null
    /\ ~SiblingHandle(last.before).visible
    /\ LastRelative # Pt(0, 0)
    /\ SiblingHandle(last.before).position # negate(LastRelative)
    /\ Visible(SiblingHandle(LastAnchor))

\* C2: after updateHandle sets handle A of an AngleLocked anchor: a visible
\* sibling B keeps its length and points opposite to A (unchanged when A has
\* zero length); an absent or invisible B becomes the exact negation of A.
C2_AngleLockedKeepsLength ==
    (last.op = "updateHandle" /\ last.before.mirrorMode = AngleLocked) =>
        LET A == LastRelative
            before == SiblingHandle(last.before)
            B == SiblingHandle(LastAnchor)
        IN  IF Visible(before)
            THEN IF A = Pt(0, 0) THEN B = before
                 ELSE /\ Visible(B)
                      /\ SquaredLength(B.position)
                           = SquaredLength(before.position)
                      /\ Cross(A, B.position) = I(0)
                      /\ RLeq(Dot(A, B.position), I(0))
                      /\ (before.position # Pt(0, 0)
                            => RLess(Dot(A, B.position), I(0)))
            ELSE B = Handle([x |-> RNeg(A.x), y |-> RNeg(A.y)])

\* C2 witness: a visible sibling of another length and direction has been
\* turned opposite to the new handle
C2_Witness ==
    /\ last.op = "updateHandle"
    /\ last.before.mirrorMode = AngleLocked
    /\ Visible(SiblingHandle(last.before))
    /\ LastRelative # Pt(0, 0)
    /\ SquaredLength(SiblingHandle(last.before).position) # I(0)
    /\ SquaredLength(SiblingHandle(last.before).position)
         # SquaredLength(LastRelative)
    /\ SiblingHandle(LastAnchor) # SiblingHandle(last.before)

\* C3: updateHandle on an anchor in Independent mode sets the one handle and
\* leaves the sibling (presence, visibility, position), the anchor position
\* and the mirror mode as they were.
C3_IndependentFrame ==
    (last.op = "updateHandle" /\ last.before.mirrorMode = Independent) =>
        /\ SiblingHandle(LastAnchor) = SiblingHandle(last.before)
        /\ LastAnchor.position = last.before.position
        /\ LastAnchor.mirrorMode = Independent
        /\ UpdatedHandle(LastAnchor).position = LastRelative
        /\ UpdatedHandle(LastAnchor).visible

\* C3 witness: an Independent anchor with a visible sibling that is not the
\* negation of the new vector has just been updated
C3_Witness ==
    /\ last.op = "updateHandle"
    /\ last.before.mirrorMode = Independent
    /\ Visible(SiblingHandle(last.before))
    /\ SiblingHandle(last.before).position # negate(LastRelative)
    /\ UpdatedHandle(LastAnchor) # UpdatedHandle(last.before)

\* every square root the handle engine takes is exact in the model
SqrtExact ==
    \A r \in AnchorRefs :
        /\ AnchorAt(r[1], r[2]).handleIn # Null
             => IsSquare(SquaredLength(AnchorAt(r[1], r[2]).handleIn.position))
        /\ AnchorAt(r[1], r[2]).handleOut # Null
             => IsSquare(SquaredLength(AnchorAt(r[1], r[2]).handleOut.position))

----------------------------------------------------------------------------
(* PathManager: Bezier mathematics *)

cubicBezierPoint(p0, cp1, cp2, p1, t) ==
    LET t2 == RMul(t, t)
        t3 == RMul(t2, t)
        mt == RSub(I(1), t)
        mt2 == RMul(mt, mt)
        mt3 == RMul(mt2, mt)
        coord(a, b, c, d) ==
            RAdd(RAdd(RAdd(RMul(mt3, a),
                           RMul(RMul(RMul(I(3), mt2), t), b)),
                      RMul(RMul(RMul(I(3), mt), t2), c)),
                 RMul(t3, d))
    IN  [x |-> coord(p0.x, cp1.x, cp2.x, p1.x),
         y |-> coord(p0.y, cp1.y, cp2.y, p1.y)]

lerp(p0, p1, t) ==
    [x |-> RAdd(p0.x, RMul(t, RSub(p1.x, p0.x))),
     y |-> RAdd(p0.y, RMul(t, RSub(p1.y, p0.y)))]

\* subdivideCubicBezier returning cp2 of curve1 = p12 instead of p012
subdivideCubicBezierWrongInner(p0, cp1, cp2, p3, t) ==
    LET p01 == lerp(p0, cp1, t)
        p12 == lerp(cp1, cp2, t)
        p23 == lerp(cp2, p3, t)
        p012 == lerp(p01, p12, t)
        p123 == lerp(p12, p23, t)
        p0123 == lerp(p012, p123, t)
    IN  [curve1 |-> [p0 |-> p0, cp1 |-> p01, cp2 |-> p12, p3 |-> p0123],
         curve2 |-> [p0 |-> p0123, cp1 |-> p123, cp2 |-> p23, p3 |-> p3]]

subdivideCubicBezier(p0, cp1, cp2, p3, t) ==
    LET p01 == lerp(p0, cp1, t)
        p12 == lerp(cp1, cp2, t)
        p23 == lerp(cp2, p3, t)
        p012 == lerp(p01, p12, t)
        p123 == lerp(p12, p23, t)
        p0123 == lerp(p012, p123, t)
    IN  [curve1 |-> [p0 |-> p0, cp1 |-> p01, cp2 |-> p012, p3 |-> p0123],
         curve2 |-> [p0 |-> p0123, cp1 |-> p123, cp2 |-> p23, p3 |-> p3]]

----------------------------------------------------------------------------
(* The Bezier functions applied to drawn inputs (SpecBezier) *)

ControlPoints == {Pt(0, 0), Pt(8, 0), Pt(-4, 12)}

\* the parameters k/TDen with 0 < k < TDen
SplitParameters == {Norm(k, TDen) : k \in 1..(TDen - 1)}

\* the parameters k/TDen with 0 <= k <= TDen
UnitParameters == {Norm(k, TDen) : k \in 0..TDen}

InitBezier ==
    /\ paths = <<>>
    /\ idCounter = 0
    /\ minted = <<>>
    /\ selectedPoints = {}
    /\ hoverPreviewPoint = Null
    /\ hoverPreviewPath = Null
    /\ NoDrag
    /\ isShiftPressed = FALSE
    /\ isAltPressed = FALSE
    /\ dragOrigin = Null
    /\ PenIdle
    /\ last = [op |-> "init"]

SubdivideCubicBezier ==
    \E p0 \in ControlPoints, cp1 \in ControlPoints, cp2 \in ControlPoints,
       p3 \in ControlPoints, t \in SplitParameters :
        /\ UNCHANGED penVars
        /\ last' = [op |-> "subdivideCubicBezier", p0 |-> p0, cp1 |-> cp1,
                    cp2 |-> cp2, p3 |-> p3, t |-> t,
                    result |-> subdivideCubicBezier(p0, cp1, cp2, p3, t)]
        /\ UNCHANGED <<storeVars, editVars>>

NextBezier == SubdivideCubicBezier

SpecBezier == InitBezier /\ [][NextBezier]_vars

\* cubicBezierPoint of a curve record {p0, cp1, cp2, p3}
CurvePoint(c, u) == cubicBezierPoint(c.p0, c.cp1, c.cp2, c.p3, u)

\* C5: subdivideCubicBezier at t in (0,1) returns curve1 from p0 and curve2 to
\* p3 joined at B(t); curve1 at u is the original at t*u and curve2 at u is
\* the original at t+(1-t)*u (two cubics agreeing at the TDen+1 >= 4
\* parameters of UnitParameters agree everywhere).
C5_SubdivisionPreservesCurve ==
    last.op = "subdivideCubicBezier" =>
        LET orig == [p0 |-> last.p0, cp1 |-> last.cp1, cp2 |-> last.cp2,
                     p3 |-> last.p3]
            c1 == last.result.curve1
            c2 == last.result.curve2
            t == last.t
        IN  /\ c1.p0 = last.p0
            /\ c2.p3 = last.p3
            /\ c1.p3 = CurvePoint(orig, t)
            /\ c2.p0 = CurvePoint(orig, t)
            /\ \A u \in UnitParameters :
                 /\ CurvePoint(c1, u) = CurvePoint(orig, RMul(t, u))
                 /\ CurvePoint(c2, u) =
                      CurvePoint(orig, RAdd(t, RMul(RSub(I(1), t), u)))

\* C5 witness: a curve with four different-looking control points split off
\* its middle, the halves being proper curves
C5_Witness ==
    /\ last.op = "subdivideCubicBezier"
    /\ last.t # Norm(1, 2)
    /\ last.p0 # last.cp1 /\ last.cp1 # last.cp2 /\ last.cp2 # last.p3
    /\ last.result.curve1.cp2 # last.result.curve2.cp1
    /\ last.result.curve1.p3 \notin {last.p0, last.p3}

----------------------------------------------------------------------------
(* PathManager: derived segments, serialization, closest anchor *)

Line == "line"
CubicBezier == "cubic-bezier"

\* DeriveSegment testing the presence of a handle instead of its visibility
DeriveSegmentByPresence(startPoint, endPoint) ==
    LET hasOutHandle == startPoint.handleOut # Null
        hasInHandle == endPoint.handleIn # Null
    IN  IF hasOutHandle \/ hasInHandle
        THEN [type |-> CubicBezier, startPoint |-> startPoint,
              endPoint |-> endPoint,
              controlPoint1 |->
                  IF hasOutHandle
                  THEN add(startPoint.position, startPoint.handleOut.position)
                  ELSE startPoint.position,
              controlPoint2 |->
                  IF hasInHandle
                  THEN add(endPoint.position, endPoint.handleIn.position)
                  ELSE endPoint.position]
        ELSE [type |-> Line, startPoint |-> startPoint, endPoint |-> endPoint]

\* the body of the loop of getSegments: the segment between two anchors
DeriveSegment(startPoint, endPoint) ==
    LET hasOutHandle == Visible(startPoint.handleOut)
        hasInHandle == Visible(endPoint.handleIn)
    IN  IF hasOutHandle \/ hasInHandle
        THEN [type |-> CubicBezier, startPoint |-> startPoint,
              endPoint |-> endPoint,
              controlPoint1 |->
                  IF hasOutHandle
                  THEN add(startPoint.position, startPoint.handleOut.position)
                  ELSE startPoint.position,
              controlPoint2 |->
                  IF hasInHandle
                  THEN add(endPoint.position, endPoint.handleIn.position)
                  ELSE endPoint.position]
        ELSE [type |-> Line, startPoint |-> startPoint, endPoint |-> endPoint]

\* loopEnd that forgets the wrapping segment of a closed path
loopEndIgnoresClosed(path) == Len(path.anchorPoints) - 1

loopEnd(path) ==
    IF path.closed THEN Len(path.anchorPoints)
    ELSE Len(path.anchorPoints) - 1

getSegments(path) ==
    LET points == path.anchorPoints
    IN  IF Len(points) < 2 THEN <<>>
        ELSE [k \in 1..loopEnd(path) |->
                 DeriveSegment(points[k], points[(k % Len(points)) + 1])]

\* Array.prototype.join(separator) on strings
RECURSIVE Join(_, _)
Join(parts, separator) ==
    IF parts = <<>> THEN <<>>
    ELSE IF Len(parts) = 1 THEN parts[1]
    ELSE parts[1] \o separator \o Join(Tail(parts), separator)

\* the command text toSVGPath emits for one segment
SegmentCommand(segment) ==
    IF segment.type = Line
    THEN <<"L", " ">> \o NumberToString(segment.endPoint.position.x)
         \o <<" ">> \o NumberToString(segment.endPoint.position.y)
    ELSE <<"C", " ">> \o NumberToString(segment.controlPoint1.x)
         \o <<" ">> \o NumberToString(segment.controlPoint1.y)
         \o <<",", " ">> \o NumberToString(segment.controlPoint2.x)
         \o <<" ">> \o NumberToString(segment.controlPoint2.y)
         \o <<",", " ">> \o NumberToString(segment.endPoint.position.x)
         \o <<" ">> \o NumberToString(segment.endPoint.position.y)

\* toSVGPath without the close command
toSVGPathNoClose(path) ==
    LET segments == getSegments(path)
    IN  IF Len(segments) = 0 THEN <<>>
        ELSE LET firstPoint == segments[1].startPoint.position
             IN  Join(<<(<<"M", " ">> \o NumberToString(firstPoint.x)
                         \o <<" ">> \o NumberToString(firstPoint.y))>>
                      \o [k \in 1..Len(segments) |->
                             SegmentCommand(segments[k])],
                      <<" ">>)

toSVGPath(path) ==
    LET segments == getSegments(path)
    IN  IF Len(segments) = 0 THEN <<>>
        ELSE LET firstPoint == segments[1].startPoint.position
             IN  Join(<<(<<"M", " ">> \o NumberToString(firstPoint.x)
                         \o <<" ">> \o NumberToString(firstPoint.y))>>
                      \o [k \in 1..Len(segments) |->
                             SegmentCommand(segments[k])]
                      \o (IF path.closed THEN <<(<<"Z">>)>> ELSE <<>>),
                      <<" ">>)

\* distance <= threshold, the distance given by its square
WithinThreshold(distanceSquared, threshold) ==
    /\ RLeq(I(0), threshold)
    /\ RLeq(distanceSquared, RMul(threshold, threshold))

\* ClosestStep with `distance <= closest.distance`: the last of equals wins
ClosestStepLastWins(closest, point, position, threshold) ==
    LET distanceSquared == SquaredDistance(position, point.position)
    IN  IF /\ WithinThreshold(distanceSquared, threshold)
           /\ (closest = Null
                 \/ RLeq(distanceSquared, closest.distanceSquared))
        THEN [anchorPoint |-> point, distanceSquared |-> distanceSquared]
        ELSE closest

\* one iteration of the loop of findClosestPointOnPath; `closest` carries the
\* square of the program's distance field
ClosestStep(closest, point, position, threshold) ==
    LET distanceSquared == SquaredDistance(position, point.position)
    IN  IF /\ WithinThreshold(distanceSquared, threshold)
           /\ (closest = Null
                 \/ RLess(distanceSquared, closest.distanceSquared))
        THEN [anchorPoint |-> point, distanceSquared |-> distanceSquared]
        ELSE closest

RECURSIVE ClosestFrom(_, _, _, _, _)
ClosestFrom(closest, points, k, position, threshold) ==
    IF k > Len(points) THEN closest
    ELSE ClosestFrom(ClosestStep(closest, points[k], position, threshold),
                     points, k + 1, position, threshold)

findClosestPointOnPath(path, position, threshold) ==
    ClosestFrom(Null, path.anchorPoints, 1, position, threshold)

----------------------------------------------------------------------------
(* The read operations applied to a family of paths (SpecGeom) *)

Hidden(pos) == [position |-> pos, visible |-> FALSE]

\* anchors as addAnchorPoint, updateHandle and a caller hiding a handle leave
\* them: position, in-handle, out-handle
AnchorTemplates ==
    { [position |-> Pt(0, 0),   handleIn |-> Null, handleOut |-> Null],
      [position |-> Pt(100, 0), handleIn |-> Null, handleOut |-> Null],
      [position |-> Pt(6, 8),   handleIn |-> Null, handleOut |-> Null],
      [position |-> Pt(0, 0),   handleIn |-> Null,
       handleOut |-> Handle(Pt(30, 40))],
      [position |-> Pt(100, 0), handleIn |-> Handle(Pt(-30, 40)),
       handleOut |-> Null],
      [position |-> Pt(100, 0), handleIn |-> Hidden(Pt(-30, 40)),
       handleOut |-> Handle(Pt(0, 0))],
      [position |-> Pt(0, 0),   handleIn |-> Handle(Pt(-10, 0)),
       handleOut |-> Hidden(Pt(10, 0))],
      [position |-> Pt(6, 8),   handleIn |-> Handle(Pt(3, -4)),
       handleOut |-> Handle(Pt(-3, 4))] }

QueryPositions == {Pt(0, 0), Pt(3, 4), Pt(50, 0), Pt(12, 16)}

\* 10 is the default threshold of findClosestPointOnPath
QueryThresholds == {I(5), I(10)}

\* the store after createPath(), n calls of addAnchorPoint and possibly
\* closePath: ids point-0 for the path and point-1..point-n for the anchors
InitGeom ==
    /\ \E n \in 0..MaxPoints, closed \in BOOLEAN :
         \E f \in [1..n -> AnchorTemplates] :
             paths = <<[NewPath(MintedId(0)) EXCEPT
                          !.closed = closed,
                          !.anchorPoints =
                              [k \in 1..n |->
                                  [NewAnchor(MintedId(k), f[k].position,
                                             Null, Null)
                                     EXCEPT !.handleIn = f[k].handleIn,
                                            !.handleOut = f[k].handleOut]]]>>
    /\ idCounter = Len(paths[1].anchorPoints) + 1
    /\ minted = [k \in 1..idCounter |-> MintedId(k - 1)]
    /\ selectedPoints = {}
    /\ hoverPreviewPoint = Null
    /\ hoverPreviewPath = Null
    /\ NoDrag
    /\ isShiftPressed = FALSE
    /\ isAltPressed = FALSE
    /\ dragOrigin = Null
    /\ PenIdle
    /\ last = [op |-> "init"]

\* GetSegments clearing every hidden handle of the path it reads
GetSegmentsClearingHiddenHandles ==
    \E p \in 1..Len(paths) :
        /\ UNCHANGED penVars
        /\ last' = [op |-> "getSegments", path |-> p,
                    result |-> getSegments(paths[p])]
        /\ paths' = [paths EXCEPT ![p].anchorPoints =
               [k \in 1..Len(@) |->
                   [@[k] EXCEPT
                      !.handleIn = IF Visible(@) THEN @ ELSE Null,
                      !.handleOut = IF Visible(@) THEN @ ELSE Null]]]
        /\ UNCHANGED <<idCounter, minted, editVars>>

GetSegments ==
    \E p \in 1..Len(paths) :
        /\ UNCHANGED penVars
        /\ last' = [op |-> "getSegments", path |-> p,
                    result |-> getSegments(paths[p])]
        /\ UNCHANGED <<storeVars, editVars>>

ToSVGPath ==
    \E p \in 1..Len(paths) :
        /\ UNCHANGED penVars
        /\ last' = [op |-> "toSVGPath", path |-> p,
                    result |-> toSVGPath(paths[p])]
        /\ UNCHANGED <<storeVars, editVars>>

FindClosestPointOnPath ==
    \E p \in 1..Len(paths), position \in QueryPositions,
       threshold \in QueryThresholds :
        /\ UNCHANGED penVars
        /\ last' = [op |-> "findClosestPointOnPath", path |-> p,
                    position |-> position, threshold |-> threshold,
                    result |-> findClosestPointOnPath(paths[p], position,
                                                      threshold)]
        /\ UNCHANGED <<storeVars, editVars>>

NextGeom == GetSegments \/ ToSVGPath \/ FindClosestPointOnPath

SpecGeom == InitGeom /\ [][NextGeom]_vars

----------------------------------------------------------------------------
(* Claims about the read operations (SpecGeom) *)

\* C6: getSegments returns nothing for fewer than 2 anchors; otherwise n-1
\* segments for an open and n for a closed path of n anchors, segment i going
\* from anchor i to anchor (i+1) mod n (indices from 0), in order.
C6_SegmentCountAndOrder ==
    last.op = "getSegments" =>
        LET path == paths[last.path]
            points == path.anchorPoints
            n == Len(points)
            segments == last.result
        IN  /\ n < 2 => segments = <<>>
            /\ (n >= 2 /\ ~path.closed) => Len(segments) = n - 1
            /\ (n >= 2 /\ path.closed) => Len(segments) = n
            /\ \A i \in 0..(Len(segments) - 1) :
                 /\ segments[i + 1].startPoint = points[i + 1]
                 /\ segments[i + 1].endPoint = points[((i + 1) % n) + 1]

\* C6 witness: the segments of a closed path of three or more anchors, the
\* last one wrapping to the first anchor
C6_Witness ==
    /\ last.op = "getSegments"
    /\ paths[last.path].closed
    /\ Len(paths[last.path].anchorPoints) >= 3
    /\ Len(last.result) = Len(paths[last.path].anchorPoints)
    /\ last.result[Len(last.result)].endPoint
         = paths[last.path].anchorPoints[1]
    /\ last.result[Len(last.result)].startPoint
         # paths[last.path].anchorPoints[1]

\* C7: a segment is CubicBezier exactly when the start's out-handle or the
\* end's in-handle is visible (zero length included), Line otherwise; control
\* point 1 is start + out-handle when that is visible, else the start itself,
\* control point 2 is end + in-handle when visible, else the end itself.
C7_SegmentTyping ==
    last.op = "getSegments" =>
        \A k \in 1..Len(last.result) :
            LET segment == last.result[k]
                start == segment.startPoint
                end == segment.endPoint
                outVisible == start.handleOut # Null /\ start.handleOut.visible
                inVisible == end.handleIn # Null /\ end.handleIn.visible
            IN  /\ segment.type \in {Line, CubicBezier}
                /\ segment.type = CubicBezier <=> (outVisible \/ inVisible)
                /\ segment.type = CubicBezier =>
                     /\ segment.controlPoint1 =
                          IF outVisible
                          THEN [x |-> RAdd(start.position.x,
                                           start.handleOut.position.x),
                                y |-> RAdd(start.position.y,
                                           start.handleOut.position.y)]
                          ELSE start.position
                     /\ segment.controlPoint2 =
                          IF inVisible
                          THEN [x |-> RAdd(end.position.x,
                                           end.handleIn.position.x),
                                y |-> RAdd(end.position.y,
                                           end.handleIn.position.y)]
                          ELSE end.position

\* C7 witness: one derivation yields a line between anchors that carry only
\* hidden handles on that side, and a cubic owed to a zero-length handle
C7_Witness ==
    /\ last.op = "getSegments"
    /\ \E k \in 1..Len(last.result) :
         /\ last.result[k].type = Line
         /\ last.result[k].startPoint.handleOut # Null
    /\ \E k \in 1..Len(last.result) :
         /\ last.result[k].type = CubicBezier
         /\ last.result[k].startPoint.handleOut = Handle(Pt(0, 0))
         /\ ~Visible(last.result[k].endPoint.handleIn)

\* the text of one segment as C8 words it
C8_Command(segment) ==
    LET num(v) == NumberToString(v)
        end == segment.endPoint.position
    IN  IF segment.type = Line
        THEN <<"L", " ">> \o num(end.x) \o <<" ">> \o num(end.y)
        ELSE <<"C", " ">> \o num(segment.controlPoint1.x) \o <<" ">>
             \o num(segment.controlPoint1.y) \o <<",", " ">>
             \o num(segment.controlPoint2.x) \o <<" ">>
             \o num(segment.controlPoint2.y) \o <<",", " ">>
             \o num(end.x) \o <<" ">> \o num(end.y)

RECURSIVE C8_Commands(_)
C8_Commands(segments) ==
    IF segments = <<>> THEN <<>>
    ELSE <<" ">> \o C8_Command(Head(segments)) \o C8_Commands(Tail(segments))

\* C8: toSVGPath returns the empty text for fewer than 2 anchors; otherwise
\* "M x y" of the first anchor, one L or C command per derived segment in
\* order, and " Z" exactly when the path is closed; anchors (0,0),(100,0)
\* without handles, open, give "M 0 0 L 100 0".
C8_Serialization ==
    last.op = "toSVGPath" =>
        LET path == paths[last.path]
            points == path.anchorPoints
        IN  /\ Len(points) < 2 => last.result = <<>>
            /\ Len(points) >= 2 =>
                 last.result =
                     <<"M", " ">> \o NumberToString(points[1].position.x)
                     \o <<" ">> \o NumberToString(points[1].position.y)
                     \o C8_Commands(getSegments(path))
                     \o (IF path.closed THEN <<" ", "Z">> ELSE <<>>)
            /\ ( /\ Len(points) = 2
                 /\ ~path.closed
                 /\ points[1].position = Pt(0, 0)
                 /\ points[2].position = Pt(100, 0)
                 /\ \A k \in 1..2 : /\ points[k].handleIn = Null
                                    /\ points[k].handleOut = Null )
               => last.result = <<"M", " ", "0", " ", "0", " ", "L", " ",
                                  "1", "0", "0", " ", "0">>

\* C8 witness: a closed path with a line and a cubic has been serialized
C8_Witness ==
    /\ last.op = "toSVGPath"
    /\ paths[last.path].closed
    /\ \E k \in 1..Len(getSegments(paths[last.path])) :
           getSegments(paths[last.path])[k].type = Line
    /\ \E k \in 1..Len(getSegments(paths[last.path])) :
           getSegments(paths[last.path])[k].type = CubicBezier
    /\ last.result[Len(last.result)] = "Z"

\* C10: findClosestPointOnPath returns null when no anchor is within the
\* threshold (distance <= threshold counts as within); otherwise the anchor of
\* minimum distance, the one of lowest index among equals.
C10_ClosestAnchor ==
    last.op = "findClosestPointOnPath" =>
        LET points == paths[last.path].anchorPoints
            d2(k) == SquaredDistance(last.position, points[k].position)
            within == {k \in 1..Len(points) :
                          RLeq(d2(k), RMul(last.threshold, last.threshold))}
            best == {k \in 1..Len(points) :
                        \A j \in 1..Len(points) : RLeq(d2(k), d2(j))}
        IN  IF within = {} THEN last.result = Null
            ELSE /\ last.result # Null
                 /\ \E k \in best :
                      /\ \A j \in best : k <= j
                      /\ last.result.anchorPoint = points[k]
                      /\ last.result.distanceSquared = d2(k)

\* C10 witness: two anchors at different places are equally near, exactly at
\* the threshold, and a later anchor lies just as near: the first is returned
C10_Witness ==
    /\ last.op = "findClosestPointOnPath"
    /\ last.result # Null
    /\ last.result.distanceSquared = RMul(last.threshold, last.threshold)
    /\ \E j \in 1..Len(paths[last.path].anchorPoints) :
         LET other == paths[last.path].anchorPoints[j]
         IN  /\ other.id # last.result.anchorPoint.id
             /\ other.position # last.result.anchorPoint.position
             /\ SquaredDistance(last.position, other.position)
                  = last.result.distanceSquared

----------------------------------------------------------------------------
(* PathManager.parseSVGPath *)

\* the command class without the letters of the unsupported commands
CommandLettersSupportedOnly ==
    {"M", "L", "H", "V", "C", "S", "Z", "m", "l", "h", "v", "c", "s", "z"}

CommandLetters ==
    {"M", "L", "H", "V", "C", "S", "Q", "T", "A", "Z",
     "m", "l", "h", "v", "c", "s", "q", "t", "a", "z"}

toUpperCase(ch) ==
    CASE ch = "m" -> "M" [] ch = "l" -> "L" [] ch = "h" -> "H"
      [] ch = "v" -> "V" [] ch = "c" -> "C" [] ch = "s" -> "S"
      [] ch = "q" -> "Q" [] ch = "t" -> "T" [] ch = "a" -> "A"
      [] ch = "z" -> "Z" [] OTHER -> ch

\* the index of the first command letter of text at or after i, or
\* Len(text) + 1 when there is none
RECURSIVE NextCommand(_, _)
NextCommand(text, i) ==
    IF i > Len(text) \/ text[i] \in CommandLetters THEN i
    ELSE NextCommand(text, i + 1)

\* the successive matches of /([MLHVCSQTAZ])([^MLHVCSQTAZ]*)/gi from index i
RECURSIVE RegexMatches(_, _)
RegexMatches(text, i) ==
    LET j == NextCommand(text, i)
        e == NextCommand(text, j + 1)
    IN  IF j > Len(text) THEN <<>>
        ELSE <<[type |-> text[j], args |-> SubSeq(text, j + 1, e - 1)]>>
             \o RegexMatches(text, e)

WhiteSpace == {" ", "\t", "\n", "\r"}

\* String.prototype.trim
RECURSIVE trim(_)
trim(str) ==
    IF str = <<>> THEN str
    ELSE IF Head(str) \in WhiteSpace THEN trim(Tail(str))
    ELSE IF str[Len(str)] \in WhiteSpace
    THEN trim(SubSeq(str, 1, Len(str) - 1))
    ELSE str

IsDigit(ch) == \E k \in 1..10 : Digit[k] = ch

\* [\d.]
IsNumberChar(ch) == IsDigit(ch) \/ ch = "."

\* the index after the run of [\d.] characters that starts at i
RECURSIVE NumberRunEnd(_, _)
NumberRunEnd(str, i) ==
    IF i > Len(str) \/ ~IsNumberChar(str[i]) THEN i
    ELSE NumberRunEnd(str, i + 1)

\* args.match(/-?[\d.]+/g), from index i
RECURSIVE NumberTokens(_, _)
NumberTokens(str, i) ==
    IF i > Len(str) THEN <<>>
    ELSE IF str[i] = "-" /\ i + 1 <= Len(str) /\ IsNumberChar(str[i + 1])
    THEN <<SubSeq(str, i, NumberRunEnd(str, i + 1) - 1)>>
         \o NumberTokens(str, NumberRunEnd(str, i + 1))
    ELSE IF IsNumberChar(str[i])
    THEN <<SubSeq(str, i, NumberRunEnd(str, i) - 1)>>
         \o NumberTokens(str, NumberRunEnd(str, i))
    ELSE NumberTokens(str, i + 1)

\* the index after the run of digits that starts at i
RECURSIVE DigitsEnd(_, _)
DigitsEnd(str, i) ==
    IF i > Len(str) \/ ~IsDigit(str[i]) THEN i ELSE DigitsEnd(str, i + 1)

DigitValue(ch) == (CHOOSE k \in 1..10 : Digit[k] = ch) - 1

\* the natural number written by the digits str[i..e-1], after acc
RECURSIVE DigitsValue(_, _, _, _)
DigitsValue(str, i, e, acc) ==
    IF i >= e THEN acc
    ELSE DigitsValue(str, i + 1, e, acc * 10 + DigitValue(str[i]))

RECURSIVE PowerOfTen(_)
PowerOfTen(k) == IF k = 0 THEN 1 ELSE 10 * PowerOfTen(k - 1)

\* parseFloat of a token matched by -?[\d.]+ : the longest prefix of the form
\* sign, digits, optional point and digits; NaN when it holds no digit
parseFloat(token) ==
    LET negative == token[1] = "-"
        b == IF negative THEN 2 ELSE 1
        ie == DigitsEnd(token, b)
        hasPoint == ie <= Len(token) /\ token[ie] = "."
        fe == IF hasPoint THEN DigitsEnd(token, ie + 1) ELSE ie
        fb == IF hasPoint THEN ie + 1 ELSE ie
        magnitude == RAdd(I(DigitsValue(token, b, ie, 0)),
                          Norm(DigitsValue(token, fb, fe, 0),
                               PowerOfTen(fe - fb)))
    IN  IF ie = b /\ fe = fb THEN NaN
        ELSE IF negative THEN RNeg(magnitude) ELSE magnitude

\* values[i] (i counted from 0) of a program array: undefined past the end
At(values, i) == IF i + 1 <= Len(values) THEN values[i + 1] ELSE Undefined

\* a parsed command; a field the program leaves out reads as undefined
Command(type, x, y, x1, y1, x2, y2) ==
    [type |-> type, x |-> x, y |-> y, x1 |-> x1, y1 |-> y1, x2 |-> x2,
     y2 |-> y2]

\* the number of iterations of `for (i = 0; i < length; i += step)`
Groups(length, step) == (length + step - 1) \div step

\* the commands pushed for one regex match
MatchCommands(type, args) ==
    LET values == [k \in 1..Len(NumberTokens(args, 1)) |->
                      parseFloat(NumberTokens(args, 1)[k])]
        n == Len(values)
        U == Undefined
        upper == toUpperCase(type)
    IN  IF Len(args) = 0 /\ type \in {"Z", "z"}
        THEN <<Command(type, U, U, U, U, U, U)>>
        ELSE CASE upper \in {"M", "L"} ->
                    [g \in 1..Groups(n, 2) |->
                        Command(IF g = 1 THEN type
                                ELSE IF type = "M" THEN "L" ELSE "l",
                                At(values, 2 * (g - 1)),
                                At(values, 2 * (g - 1) + 1), U, U, U, U)]
               [] upper = "H" ->
                    [g \in 1..n |-> Command(type, values[g], U, U, U, U, U)]
               [] upper = "V" ->
                    [g \in 1..n |-> Command(type, U, values[g], U, U, U, U)]
               [] upper = "C" ->
                    [g \in 1..Groups(n, 6) |->
                        Command(type,
                                At(values, 6 * (g - 1) + 4),
                                At(values, 6 * (g - 1) + 5),
                                At(values, 6 * (g - 1)),
                                At(values, 6 * (g - 1) + 1),
                                At(values, 6 * (g - 1) + 2),
                                At(values, 6 * (g - 1) + 3))]
               [] upper = "S" ->
                    [g \in 1..Groups(n, 4) |->
                        Command(type,
                                At(values, 4 * (g - 1) + 2),
                                At(values, 4 * (g - 1) + 3), U, U,
                                At(values, 4 * (g - 1)),
                                At(values, 4 * (g - 1) + 1))]
               [] upper = "Q" ->
                    [g \in 1..Groups(n, 4) |->
                        Command(type,
                                At(values, 4 * (g - 1) + 2),
                                At(values, 4 * (g - 1) + 3),
                                At(values, 4 * (g - 1)),
                                At(values, 4 * (g - 1) + 1), U, U)]
               [] upper = "T" ->
                    [g \in 1..Groups(n, 2) |->
                        Command(type, At(values, 2 * (g - 1)),
                                At(values, 2 * (g - 1) + 1), U, U, U, U)]
               [] upper = "A" ->
                    [g \in 1..Groups(n, 7) |->
                        Command(type, At(values, 7 * (g - 1) + 5),
                                At(values, 7 * (g - 1) + 6), U, U, U, U)]
               [] OTHER -> <<>>

RECURSIVE CommandsOf(_)
CommandsOf(matches) ==
    IF matches = <<>> THEN <<>>
    ELSE MatchCommands(Head(matches).type, trim(Head(matches).args))
         \o CommandsOf(Tail(matches))

parseSVGPath(pathData) == CommandsOf(RegexMatches(pathData, 1))

----------------------------------------------------------------------------
(* PathManager.importFromSVG *)

XY(x, y) == [x |-> x, y |-> y]

\* this.addAnchorPoint(path, position) inside the import: st carries the
\* path under construction and the id counter
ImportAddPoint(st, position) ==
    [st EXCEPT !.path = addAnchorPoint(@, MintedId(st.counter), position,
                                       Null, Null),
               !.counter = generateId(@)]

\* ImportMoveTo that adds an anchor at every move-to
ImportMoveToAlwaysAdds(st, position) ==
    ImportAddPoint([st EXCEPT !.currentPoint = position], position)

\* M, m: move the current point; an anchor is added there only when the
\* path has none yet
ImportMoveTo(st, position) ==
    LET moved == [st EXCEPT !.currentPoint = position]
    IN  IF Len(st.path.anchorPoints) = 0
        THEN ImportAddPoint(moved, position)
        ELSE moved

\* L, l, H, h, V, v: move the current point, add an anchor there
ImportLineTo(st, position) ==
    [ImportAddPoint(st, position) EXCEPT !.currentPoint = position,
                                         !.lastControlPoint = Null]

\* ImportCurveTo storing the control points themselves as handle positions
ImportCurveToAbsoluteHandles(st, cp1, cp2, endPoint) ==
    LET n == Len(st.path.anchorPoints)
        withOut ==
            IF n >= 1
            THEN [st EXCEPT !.path.anchorPoints[n].handleOut = Handle(cp1)]
            ELSE st
        added == ImportAddPoint(withOut, endPoint)
    IN  [added EXCEPT !.path.anchorPoints[n + 1].handleIn = Handle(cp2),
                      !.currentPoint = endPoint,
                      !.lastControlPoint = cp2]

\* the common part of C, c, S, s: out-handle of the previous anchor, a new
\* anchor with an in-handle
ImportCurveTo(st, cp1, cp2, endPoint) ==
    LET n == Len(st.path.anchorPoints)
        withOut ==
            IF n >= 1
            THEN [st EXCEPT !.path.anchorPoints[n].handleOut =
                     Handle(subtract(cp1, st.path.anchorPoints[n].position))]
            ELSE st
        added == ImportAddPoint(withOut, endPoint)
    IN  [added EXCEPT !.path.anchorPoints[n + 1].handleIn =
                          Handle(subtract(cp2, endPoint)),
                      !.currentPoint = endPoint,
                      !.lastControlPoint = cp2]

\* one iteration of the loop over the commands
ImportCommand(st, cmd) ==
    LET cur == st.currentPoint
        n == Len(st.path.anchorPoints)
        rel(x, y) == XY(RAdd(cur.x, x), RAdd(cur.y, y))
    IN  CASE cmd.type = "M" -> ImportMoveTo(st, XY(cmd.x, cmd.y))
          [] cmd.type = "m" -> ImportMoveTo(st, rel(cmd.x, cmd.y))
          [] cmd.type = "L" -> ImportLineTo(st, XY(cmd.x, cmd.y))
          [] cmd.type = "l" -> ImportLineTo(st, rel(cmd.x, cmd.y))
          [] cmd.type = "H" -> ImportLineTo(st, XY(cmd.x, cur.y))
          [] cmd.type = "h" -> ImportLineTo(st, XY(RAdd(cur.x, cmd.x), cur.y))
          [] cmd.type = "V" -> ImportLineTo(st, XY(cur.x, cmd.y))
          [] cmd.type = "v" -> ImportLineTo(st, XY(cur.x, RAdd(cur.y, cmd.y)))
          [] cmd.type = "C" ->
               ImportCurveTo(st, XY(cmd.x1, cmd.y1), XY(cmd.x2, cmd.y2),
                             XY(cmd.x, cmd.y))
          [] cmd.type = "c" ->
               ImportCurveTo(st, rel(cmd.x1, cmd.y1), rel(cmd.x2, cmd.y2),
                             rel(cmd.x, cmd.y))
          [] cmd.type \in {"S", "s"} ->
               LET cp1 == IF st.lastControlPoint # Null /\ n >= 1
                          THEN LET prev == st.path.anchorPoints[n].position
                               IN  XY(RSub(RMul(I(2), prev.x),
                                           st.lastControlPoint.x),
                                      RSub(RMul(I(2), prev.y),
                                           st.lastControlPoint.y))
                          ELSE cur
               IN  IF cmd.type = "s"
                   THEN ImportCurveTo(st, cp1, rel(cmd.x2, cmd.y2),
                                      rel(cmd.x, cmd.y))
                   ELSE ImportCurveTo(st, cp1, XY(cmd.x2, cmd.y2),
                                      XY(cmd.x, cmd.y))
          [] cmd.type \in {"Z", "z"} -> [st EXCEPT !.path.closed = TRUE]
          [] OTHER -> st

RECURSIVE ImportCommands(_, _)
ImportCommands(st, commands) ==
    IF commands = <<>> THEN st
    ELSE ImportCommands(ImportCommand(st, Head(commands)), Tail(commands))

\* `if (options.stroke) ...`: the option is present and truthy
HasOption(options, name) ==
    /\ name \in DOMAIN options
    /\ IF name = "strokeWidth" THEN options[name] # 0 ELSE options[name] # ""

\* importFromSVG called when the id counter is `counter`: the path it
\* creates in the store and returns, and the counter afterwards
importFromSVG(counter, pathData, options) ==
    LET created == NewPath(MintedId(counter))
        styled ==
            [created EXCEPT
               !.stroke = IF HasOption(options, "stroke")
                          THEN options.stroke ELSE @,
               !.strokeWidth = IF HasOption(options, "strokeWidth")
                               THEN options.strokeWidth ELSE @,
               !.fill = IF HasOption(options, "fill")
                        THEN options.fill ELSE @]
        final == ImportCommands([path |-> styled,
                                 counter |-> generateId(counter),
                                 currentPoint |-> Pt(0, 0),
                                 lastControlPoint |-> Null],
                                parseSVGPath(pathData))
    IN  [path |-> final.path, idCounter |-> final.counter]

----------------------------------------------------------------------------
(* The operations of the store (Spec) *)

StorePositions == {Pt(0, 0), Pt(100, 0)}

\* "M 0 0 L 100 0"
TextLine ==
    <<"M", " ", "0", " ", "0", " ", "L", " ", "1", "0", "0", " ", "0">>

\* "M 0 0 C 10 0, 10 10, 0 10 Z"
TextCurve ==
    <<"M", " ", "0", " ", "0", " ", "C", " ", "1", "0", " ", "0", ",", " ",
      "1", "0", " ", "1", "0", ",", " ", "0", " ", "1", "0", " ", "Z">>

ImportTexts == {<<>>, TextLine, TextCurve}

ImportOptions ==
    {<<>>, [stroke |-> "#ff0000", strokeWidth |-> 3, fill |-> "none"]}

PathIds == {paths[p].id : p \in 1..Len(paths)}

\* the ids callers may still hold: every id ever minted
KnownIds == {minted[k] : k \in 1..Len(minted)}

Init ==
    /\ paths = <<>>
    /\ idCounter = 0
    /\ minted = <<>>
    /\ selectedPoints = {}
    /\ hoverPreviewPoint = Null
    /\ hoverPreviewPath = Null
    /\ NoDrag
    /\ isShiftPressed = FALSE
    /\ isAltPressed = FALSE
    /\ dragOrigin = Null
    /\ PenIdle
    /\ last = [op |-> "init"]

CreatePath ==
    /\ idCounter < MaxIds
    /\ paths' = Append(paths, NewPath(MintedId(idCounter)))
    /\ idCounter' = generateId(idCounter)
    /\ minted' = Append(minted, paths'[Len(paths')].id)
    /\ UNCHANGED penVars
    /\ last' = [op |-> "createPath", result |-> paths'[Len(paths')].id]
    /\ UNCHANGED editVars

AddAnchorPoint ==
    \E p \in 1..Len(paths), position \in StorePositions :
        /\ idCounter < MaxIds
        /\ paths' = [paths EXCEPT ![p] =
                        addAnchorPoint(@, MintedId(idCounter), position,
                                       Null, Null)]
        /\ idCounter' = generateId(idCounter)
        /\ minted' = Append(minted,
                 paths'[p].anchorPoints[Len(paths'[p].anchorPoints)].id)
        /\ UNCHANGED penVars
        /\ last' = [op |-> "addAnchorPoint", path |-> p,
                    result |-> MintedId(idCounter)]
        /\ UNCHANGED editVars

InsertAnchorPoint ==
    \E p \in 1..Len(paths), position \in StorePositions :
        \E index \in 0..Len(paths[p].anchorPoints) :
            /\ idCounter < MaxIds
            /\ paths' = [paths EXCEPT ![p] =
                            insertAnchorPoint(@, MintedId(idCounter), index,
                                              position, Null, Null)]
            /\ idCounter' = generateId(idCounter)
            /\ minted' = Append(minted, paths'[p].anchorPoints[index + 1].id)
            /\ UNCHANGED penVars
            /\ last' = [op |-> "insertAnchorPoint", path |-> p,
                        index |-> index, result |-> MintedId(idCounter)]
            /\ UNCHANGED editVars

RemoveAnchorPoint ==
    \E p \in 1..Len(paths), pointId \in KnownIds :
        /\ paths' = [paths EXCEPT ![p] = removeAnchorPoint(@, pointId)]
        /\ UNCHANGED penVars
        /\ last' = [op |-> "removeAnchorPoint", path |-> p,
                    pointId |-> pointId,
                    result |-> FindIndex(paths[p].anchorPoints, pointId) # -1]
        /\ UNCHANGED <<idCounter, minted, editVars>>

MoveAnchorPoint ==
    \E p \in 1..Len(paths), pointId \in KnownIds,
       newPosition \in StorePositions :
        /\ paths' = [paths EXCEPT ![p] =
                        moveAnchorPoint(@, pointId, newPosition)]
        /\ UNCHANGED penVars
        /\ last' = [op |-> "moveAnchorPoint", path |-> p,
                    pointId |-> pointId,
                    result |-> FindIndex(paths[p].anchorPoints, pointId) # -1]
        /\ UNCHANGED <<idCounter, minted, editVars>>

\* Map.delete(id): the other paths keep their order
RemovePath ==
    \E id \in KnownIds :
        /\ paths' = SelectSeq(paths, LAMBDA path : path.id # id)
        /\ UNCHANGED penVars
        /\ last' = [op |-> "removePath", id |-> id,
                    result |-> id \in PathIds]
        /\ UNCHANGED <<idCounter, minted, editVars>>

\* Map.get(id): the path, or undefined when there is none
getPath(allPaths, id) ==
    IF \E p \in 1..Len(allPaths) : allPaths[p].id = id
    THEN allPaths[CHOOSE p \in 1..Len(allPaths) : allPaths[p].id = id]
    ELSE Undefined

GetPath ==
    \E id \in KnownIds :
        /\ UNCHANGED penVars
        /\ last' = [op |-> "getPath", id |-> id,
                    result |-> getPath(paths, id)]
        /\ UNCHANGED <<paths, idCounter, minted, editVars>>

ClosePath ==
    \E p \in 1..Len(paths) :
        /\ paths' = [paths EXCEPT ![p].closed = TRUE]
        /\ UNCHANGED penVars
        /\ last' = [op |-> "closePath", path |-> p]
        /\ UNCHANGED <<idCounter, minted, editVars>>

OpenPath ==
    \E p \in 1..Len(paths) :
        /\ paths' = [paths EXCEPT ![p].closed = FALSE]
        /\ UNCHANGED penVars
        /\ last' = [op |-> "openPath", path |-> p]
        /\ UNCHANGED <<idCounter, minted, editVars>>

ImportFromSVG ==
    \E pathData \in ImportTexts, options \in ImportOptions :
        LET imported == importFromSVG(idCounter, pathData, options)
        IN  /\ imported.idCounter <= MaxIds
            /\ paths' = Append(paths, imported.path)
            /\ idCounter' = imported.idCounter
            /\ minted' = minted \o <<imported.path.id>>
                           \o [k \in 1..Len(imported.path.anchorPoints) |->
                                  imported.path.anchorPoints[k].id]
            /\ UNCHANGED penVars
            /\ last' = [op |-> "importFromSVG", pathData |-> pathData,
                        result |-> imported.path.id]
            /\ UNCHANGED editVars

Next ==
    \/ CreatePath
    \/ AddAnchorPoint
    \/ InsertAnchorPoint
    \/ RemoveAnchorPoint
    \/ MoveAnchorPoint
    \/ RemovePath
    \/ GetPath
    \/ ClosePath
    \/ OpenPath
    \/ ImportFromSVG

Spec == Init /\ [][Next]_vars

----------------------------------------------------------------------------
(* Claims about the store (Spec) *)

\* the ids of the paths and anchors now in the store
StoreIds ==
    PathIds \cup {AnchorAt(r[1], r[2]).id : r \in AnchorRefs}

\* C9: whatever createPath, addAnchorPoint, insertAnchorPoint,
\* removeAnchorPoint, removePath and importFromSVG calls were made, every id
\* minted for a path or an anchor differs from every id minted before it
\* (also from ids of deleted objects), and the counter never decreases.
C9_IdsNeverReused ==
    /\ [](/\ \A j, k \in 1..Len(minted) : j # k => minted[j] # minted[k]
          /\ StoreIds \subseteq KnownIds
          /\ Cardinality(StoreIds) = Len(paths) + Cardinality(AnchorRefs))
    /\ [][idCounter' >= idCounter]_vars

\* C9 witness: an id has been minted for a new anchor after an earlier object
\* was deleted, and a path and its anchors share the id space
C9_Witness ==
    /\ last.op \in {"addAnchorPoint", "insertAnchorPoint"}
    /\ last.result \in StoreIds
    /\ \E id \in KnownIds : id \notin StoreIds
    /\ PathIds # {}
    /\ idCounter = Len(minted)

----------------------------------------------------------------------------
(* HandleManager: default handles *)

\* createDefaultHandles(anchorPoint, prevPoint, nextPoint, handleLength = 50)
handleLength == 50

\* (Math.cos(a), Math.sin(a)) for a = PointUtils.angle(p1, p2): the unit
\* vector from p1 to p2, and (1, 0) when the points coincide (atan2(0, 0) = 0)
Direction(p1, p2) ==
    LET d == subtract(p2, p1)
        length == RSqrt(SquaredLength(d))
    IN  IF d.x = I(0) /\ d.y = I(0) THEN Pt(1, 0)
        ELSE [x |-> RDiv(d.x, length), y |-> RDiv(d.y, length)]

\* createDefaultHandles setting the mode before it looks at the neighbours
createDefaultHandlesAlwaysMirrored(anchorPoint, prevPoint, nextPoint) ==
    LET offset == RDiv(I(handleLength), I(3))
    IN  IF prevPoint = Null /\ nextPoint = Null
        THEN [anchorPoint EXCEPT !.mirrorMode = Mirrored]
        ELSE IF prevPoint # Null /\ nextPoint # Null
        THEN LET u == Direction(prevPoint, nextPoint)
             IN  [anchorPoint EXCEPT
                     !.handleIn = Handle(negate(scale(u, offset))),
                     !.handleOut = Handle(scale(u, offset)),
                     !.mirrorMode = Mirrored]
        ELSE IF prevPoint # Null
        THEN LET u == Direction(prevPoint, anchorPoint.position)
             IN  [anchorPoint EXCEPT
                     !.handleIn = Handle(negate(scale(u, offset))),
                     !.mirrorMode = Mirrored]
        ELSE LET u == Direction(anchorPoint.position, nextPoint)
             IN  [anchorPoint EXCEPT
                     !.handleOut = Handle(scale(u, offset)),
                     !.mirrorMode = Mirrored]

createDefaultHandles(anchorPoint, prevPoint, nextPoint) ==
    LET offset == RDiv(I(handleLength), I(3))
    IN  IF prevPoint = Null /\ nextPoint = Null THEN anchorPoint
        ELSE IF prevPoint # Null /\ nextPoint # Null
        THEN LET u == Direction(prevPoint, nextPoint)
             IN  [anchorPoint EXCEPT
                     !.handleIn = Handle(negate(scale(u, offset))),
                     !.handleOut = Handle(scale(u, offset)),
                     !.mirrorMode = Mirrored]
        ELSE IF prevPoint # Null
        THEN LET u == Direction(prevPoint, anchorPoint.position)
             IN  [anchorPoint EXCEPT
                     !.handleIn = Handle(negate(scale(u, offset))),
                     !.mirrorMode = Mirrored]
        ELSE LET u == Direction(anchorPoint.position, nextPoint)
             IN  [anchorPoint EXCEPT
                     !.handleOut = Handle(scale(u, offset)),
                     !.mirrorMode = Mirrored]

----------------------------------------------------------------------------
(* EditMode: hover preview and double-click insertion *)

\* const samples = 50 in findClosestPointOnSegment
samples == 50

\* options.hoverDistance ?? 5
hoverDistance == 5

\* the point of a segment at parameter t, as the sampling loop computes it
SamplePoint(segment, t) ==
    IF segment.type = Line
    THEN LET mt == RSub(I(1), t)
         IN  [x |-> RAdd(RMul(mt, segment.startPoint.position.x),
                         RMul(t, segment.endPoint.position.x)),
              y |-> RAdd(RMul(mt, segment.startPoint.position.y),
                         RMul(t, segment.endPoint.position.y))]
    ELSE cubicBezierPoint(segment.startPoint.position, segment.controlPoint1,
                          segment.controlPoint2, segment.endPoint.position, t)

\* the samples the loop visits, i = 0..samples, each with the square of its
\* distance to the position
Samples(segment, position) ==
    [i \in 0..samples |->
        LET t == RDiv(I(i), I(samples))
            point == SamplePoint(segment, t)
        IN  [position |-> point,
             distanceSquared |-> SquaredDistance(position, point),
             t |-> t]]

\* the sampling loop from step i on; closest is the index of the closest
\* sample so far, -1 while minDistance is still Infinity
RECURSIVE ClosestSample(_, _, _)
ClosestSample(sample, i, closest) ==
    IF i > samples THEN closest
    ELSE IF IF closest = -1 THEN IsNum(sample[i].distanceSquared)
            ELSE RLess(sample[i].distanceSquared,
                       sample[closest].distanceSquared)
    THEN ClosestSample(sample, i + 1, i)
    ELSE ClosestSample(sample, i + 1, closest)

\* [position, distance (as its square), t] of the closest sample, or Null
findClosestPointOnSegment(segment, position) ==
    LET sample == Samples(segment, position)
        closest == ClosestSample(sample, 0, -1)
    IN  IF closest # -1 THEN sample[closest] ELSE Null

\* the loop over the segments of one path in updateHoverPreview
RECURSIVE HoverOverSegments(_, _, _, _, _)
HoverOverSegments(path, segments, k, position, closest) ==
    IF k > Len(segments) THEN closest
    ELSE LET result == findClosestPointOnSegment(segments[k], position)
         IN  HoverOverSegments(path, segments, k + 1, position,
                 IF /\ result # Null
                    /\ (closest = Null
                          \/ RLess(result.distanceSquared,
                                   closest.minDistanceSquared))
                    /\ WithinThreshold(result.distanceSquared,
                                       I(hoverDistance))
                 THEN [closestPoint |-> result.position,
                       closestPath |-> path.id,
                       minDistanceSquared |-> result.distanceSquared]
                 ELSE closest)

\* the loop over all paths in updateHoverPreview
RECURSIVE HoverOverPaths(_, _, _, _)
HoverOverPaths(allPaths, p, position, closest) ==
    IF p > Len(allPaths) THEN closest
    ELSE HoverOverPaths(allPaths, p + 1, position,
             HoverOverSegments(allPaths[p], getSegments(allPaths[p]), 1,
                               position, closest))

\* the first part of updateHoverPreview: the closest sample within
\* hoverDistance on any path, [closestPoint, closestPath, minDistance (as its
\* square)], or Null
ClosestOnPaths(allPaths, position) ==
    HoverOverPaths(allPaths, 1, position, Null)

\* updateHoverPreview without the clearing branch: a preview stays when the
\* pointer is no longer near a path
updateHoverPreviewKeepsStale(closest, point, path) ==
    IF closest # Null
    THEN [point |-> closest.closestPoint, path |-> closest.closestPath]
    ELSE [point |-> point, path |-> path]

\* the second part of updateHoverPreview: the hover state [point, path] it
\* leaves, given the closest sample found
updateHoverPreview(closest, point, path) ==
    IF closest # Null
    THEN IF \/ point = Null
            \/ point.x # closest.closestPoint.x
            \/ point.y # closest.closestPoint.y
            \/ path # closest.closestPath
         THEN [point |-> closest.closestPoint, path |-> closest.closestPath]
         ELSE [point |-> point, path |-> path]
    ELSE IF point # Null THEN [point |-> Null, path |-> Null]
    ELSE [point |-> point, path |-> path]

\* the loop of onDoubleClick: the first segment, in path order, that has a
\* sample at distance < 1 of the hover point, as [i, t] with i counted from
\* 0, or Null when the loop ends without one
RECURSIVE FirstSegmentNear(_, _, _)
FirstSegmentNear(segments, i, point) ==
    IF i >= Len(segments) THEN Null
    ELSE LET result == findClosestPointOnSegment(segments[i + 1], point)
         IN  IF result # Null /\ RLess(result.distanceSquared, I(1))
             THEN [i |-> i, t |-> result.t]
             ELSE FirstSegmentNear(segments, i + 1, point)

\* the loop of onDoubleClick accepting a sample within hoverDistance of the
\* hover point
RECURSIVE FirstSegmentWithinHoverDistance(_, _, _)
FirstSegmentWithinHoverDistance(segments, i, point) ==
    IF i >= Len(segments) THEN Null
    ELSE LET result == findClosestPointOnSegment(segments[i + 1], point)
         IN  IF /\ result # Null
                /\ WithinThreshold(result.distanceSquared, I(hoverDistance))
             THEN [i |-> i, t |-> result.t]
             ELSE FirstSegmentWithinHoverDistance(segments, i + 1, point)

SegmentWithinHoverDistance(segments, point) ==
    FirstSegmentWithinHoverDistance(segments, 0, point)

\* `for (let i = 0; i < segments.length; i++)` of onDoubleClick
SegmentNear(segments, point) == FirstSegmentNear(segments, 0, point)

\* selectPoint that leaves the flag of the anchor as it is
selectPointWithoutFlag(anchorPoint) == anchorPoint

\* selectPoint: the flag of the anchor (the id joins selectedPoints in the
\* action)
selectPoint(anchorPoint) == [anchorPoint EXCEPT !.selected = TRUE]

\* the body of `if (result && result.distance < 1)` in onDoubleClick: the
\* path after the insertion into segment i at parameter t.  startPoint,
\* endPoint and newPoint are references to anchors of the path, found here
\* by their ids
InsertOnSegment(path, id, segment, i, t, point) ==
    LET startPoint == segment.startPoint
        endPoint == segment.endPoint
        inserted == insertAnchorPoint(path, id, i + 1, point, Null, Null)
        cubic == /\ segment.type = CubicBezier
                 /\ segment.controlPoint1 # Null
                 /\ segment.controlPoint2 # Null
        subdivided ==
            subdivideCubicBezier(startPoint.position, segment.controlPoint1,
                                 segment.controlPoint2, endPoint.position, t)
        atStart(a) ==
            IF cubic /\ a.id = startPoint.id /\ a.handleOut # Null
            THEN [a EXCEPT !.handleOut.position =
                     subtract(subdivided.curve1.cp1, a.position)]
            ELSE a
        atNew(a) ==
            IF a.id # id THEN a
            ELSE IF cubic
            THEN selectPoint(
                     [a EXCEPT
                         !.handleIn =
                             Handle(subtract(subdivided.curve1.cp2,
                                             a.position)),
                         !.handleOut =
                             Handle(subtract(subdivided.curve2.cp1,
                                             a.position))])
            ELSE selectPoint(createDefaultHandles(a, startPoint.position,
                                                  endPoint.position))
        atEnd(a) ==
            IF cubic /\ a.id = endPoint.id /\ a.handleIn # Null
            THEN [a EXCEPT !.handleIn.position =
                     subtract(subdivided.curve2.cp2, a.position)]
            ELSE a
    IN  [inserted EXCEPT !.anchorPoints =
            [k \in 1..Len(inserted.anchorPoints) |->
                atEnd(atNew(atStart(inserted.anchorPoints[k])))]]

\* the position in the store of the path with the given id
PathIndex(allPaths, pathId) ==
    CHOOSE p \in 1..Len(allPaths) : allPaths[p].id = pathId

----------------------------------------------------------------------------
(* The edit machine hovering over one path and inserting into it (SpecEdit).
   The drawn path is A -> B -> C: a curve from A = (0, 0) to B = (150, 0)
   with control points (50, 50) and (100, 50), followed by a straight piece
   to C, short or long; the path is open or closed.  On these coordinates
   every sample k/50 of every segment is a fraction with a small denominator.
   No pointer-down happens in SpecEdit, so no drag is ever in progress. *)

\* pointer moves are followed while every path has fewer anchors than this
MaxAnchors == 4

Pointers ==
    {Pt(75, 38), Pt(151, 0), Pt(150, 0), Pt(153, 0), Pt(160, 0), Pt(3, 3),
     Pt(75, 3), Pt(40, 90)}

\* the store after createPath and three addAnchorPoint calls (which leave the
\* anchors Mirrored), optionally setMirrorMode(B, mode) and closePath
EditPath(endX, mode, closed) ==
    LET drawn ==
            addAnchorPoint(
                addAnchorPoint(
                    addAnchorPoint(NewPath(MintedId(0)), MintedId(1),
                                   Pt(0, 0), Null, Pt(50, 50)),
                    MintedId(2), Pt(150, 0), Pt(-50, 50), Null),
                MintedId(3), Pt(endX, 0), Null, Null)
    IN  [drawn EXCEPT
            !.anchorPoints[2] =
                IF mode = Mirrored THEN @ ELSE setMirrorMode(@, mode),
            !.closed = closed]

InitEdit ==
    /\ \E endX \in {170, 250}, mode \in {Mirrored, Independent},
          closed \in BOOLEAN :
           paths = <<EditPath(endX, mode, closed)>>
    /\ idCounter = 4
    /\ minted = [k \in 1..4 |-> MintedId(k - 1)]
    /\ selectedPoints = {}
    /\ hoverPreviewPoint = Null
    /\ hoverPreviewPath = Null
    /\ NoDrag
    /\ isShiftPressed = FALSE
    /\ isAltPressed = FALSE
    /\ dragOrigin = Null
    /\ PenIdle
    /\ last = [op |-> "init"]

----------------------------------------------------------------------------
(* EditMode: pointer and key handlers *)

hitThreshold == 8

\* getAbsoluteHandlePosition of every present handle, hidden ones included
getAbsoluteHandlePositionOfPresent(anchorPoint, isOutHandle) ==
    LET handle == IF isOutHandle THEN anchorPoint.handleOut
                  ELSE anchorPoint.handleIn
    IN  IF handle = Null THEN Null
        ELSE add(anchorPoint.position, handle.position)

getAbsoluteHandlePosition(anchorPoint, isOutHandle) ==
    LET handle == IF isOutHandle THEN anchorPoint.handleOut
                  ELSE anchorPoint.handleIn
    IN  IF handle = Null \/ ~handle.visible THEN Null
        ELSE add(anchorPoint.position, handle.position)

\* isNearHandle reporting the nearer of the two handles within the threshold
isNearHandleNearestWins(anchorPoint, position, threshold) ==
    LET outPos == getAbsoluteHandlePosition(anchorPoint, TRUE)
        inPos == getAbsoluteHandlePosition(anchorPoint, FALSE)
        outHit == /\ outPos # Null
                  /\ WithinThreshold(SquaredDistance(position, outPos),
                                     threshold)
        inHit == /\ inPos # Null
                 /\ WithinThreshold(SquaredDistance(position, inPos),
                                    threshold)
    IN  IF outHit /\ (~inHit \/ RLeq(SquaredDistance(position, outPos),
                                     SquaredDistance(position, inPos)))
        THEN [isOut |-> TRUE,
              distanceSquared |-> SquaredDistance(position, outPos)]
        ELSE IF inHit
        THEN [isOut |-> FALSE,
              distanceSquared |-> SquaredDistance(position, inPos)]
        ELSE Null

\* the out-handle is tried before the in-handle; `distanceSquared` is the
\* square of the program's distance field
isNearHandle(anchorPoint, position, threshold) ==
    LET outPos == getAbsoluteHandlePosition(anchorPoint, TRUE)
        inPos == getAbsoluteHandlePosition(anchorPoint, FALSE)
    IN  IF /\ Visible(anchorPoint.handleOut)
           /\ outPos # Null
           /\ WithinThreshold(SquaredDistance(position, outPos), threshold)
        THEN [isOut |-> TRUE,
              distanceSquared |-> SquaredDistance(position, outPos)]
        ELSE IF /\ Visible(anchorPoint.handleIn)
                /\ inPos # Null
                /\ WithinThreshold(SquaredDistance(position, inPos),
                                   threshold)
        THEN [isOut |-> FALSE,
              distanceSquared |-> SquaredDistance(position, inPos)]
        ELSE Null

\* the second loop of onMouseDown from path p on: the first path with an
\* anchor within the threshold, and its closest anchor
RECURSIVE AnchorHitFrom(_, _, _)
AnchorHitFrom(allPaths, p, position) ==
    IF p > Len(allPaths) THEN Null
    ELSE LET hit == findClosestPointOnPath(allPaths[p], position,
                                           I(hitThreshold))
         IN  IF hit # Null
             THEN [p |-> p, anchorPoint |-> hit.anchorPoint]
             ELSE AnchorHitFrom(allPaths, p + 1, position)

\* the first loop of onMouseDown from anchor k of path p on: the first
\* anchor, paths in store order and anchors in path order, with a handle hit
RECURSIVE HandleHitFrom(_, _, _, _)
HandleHitFrom(allPaths, p, k, position) ==
    IF p > Len(allPaths) THEN Null
    ELSE IF k > Len(allPaths[p].anchorPoints)
    THEN HandleHitFrom(allPaths, p + 1, 1, position)
    ELSE LET handleHit == isNearHandle(allPaths[p].anchorPoints[k], position,
                                       I(hitThreshold))
         IN  IF handleHit # Null
             THEN [p |-> p, k |-> k, isOut |-> handleHit.isOut]
             ELSE HandleHitFrom(allPaths, p, k + 1, position)

\* FirstHandleHit with anchors taking precedence: no handle is hit where an
\* anchor is within the threshold
FirstHandleHitUnlessAnchor(allPaths, position) ==
    IF AnchorHitFrom(allPaths, 1, position) # Null THEN Null
    ELSE HandleHitFrom(allPaths, 1, 1, position)

\* the handle loop of onMouseDown
FirstHandleHit(allPaths, position) ==
    HandleHitFrom(allPaths, 1, 1, position)

\* the anchors clearSelection leaves in the store
clearSelection(allPaths) ==
    [p \in 1..Len(allPaths) |->
        [allPaths[p] EXCEPT !.anchorPoints =
            [k \in 1..Len(@) |-> [@[k] EXCEPT !.selected = FALSE]]]]

\* the reference held by dragTarget: the path and the anchor, and the anchor
\* object itself once it has been removed from its path
DragTarget(path, point) ==
    [path |-> path.id, point |-> point.id, detached |-> Null]

TargetPoint(allPaths, target) ==
    IF target.detached # Null THEN target.detached
    ELSE LET path == allPaths[PathIndex(allPaths, target.path)]
         IN  path.anchorPoints[FindIndex(path.anchorPoints, target.point) + 1]

\* an assignment to dragTarget.point: to the store when the anchor is in its
\* path, to the removed object otherwise
AssignTarget(point) ==
    IF dragTarget.detached # Null
    THEN /\ dragTarget' = [dragTarget EXCEPT !.detached = point]
         /\ UNCHANGED paths
    ELSE /\ paths' = [paths EXCEPT
                         ![PathIndex(paths, dragTarget.path)].anchorPoints =
                             [@ EXCEPT ![FindIndex(@, dragTarget.point) + 1]
                                           = point]]
         /\ UNCHANGED dragTarget

\* startDraggingHandle that leaves dragTarget as it is
startDraggingHandleKeepsTarget(path, point, isOut) ==
    /\ isDragging' = TRUE
    /\ dragType' = IF isOut THEN "handle-out" ELSE "handle-in"
    /\ UNCHANGED dragTarget

startDraggingHandle(path, point, isOut) ==
    /\ isDragging' = TRUE
    /\ dragType' = IF isOut THEN "handle-out" ELSE "handle-in"
    /\ dragTarget' = DragTarget(path, point)

\* startDraggingPoint on the anchor with the given id of path p
startDraggingPoint(p, point) ==
    /\ isDragging' = TRUE
    /\ dragType' = "point"
    /\ dragTarget' = DragTarget(paths[p], point)
    /\ paths' = [(IF ~isShiftPressed THEN clearSelection(paths) ELSE paths)
                    EXCEPT ![p].anchorPoints =
                        [@ EXCEPT ![FindIndex(@, point.id) + 1] =
                                      selectPoint(@)]]
    /\ selectedPoints' = (IF ~isShiftPressed THEN {} ELSE selectedPoints)
                            \cup {point.id}

onMouseDown(position) ==
    \E handleHit \in {FirstHandleHit(paths, position)} :
        IF handleHit # Null
        THEN /\ startDraggingHandle(paths[handleHit.p],
                    paths[handleHit.p].anchorPoints[handleHit.k],
                    handleHit.isOut)
             /\ dragStartPos' = position
             /\ dragOrigin' = Null
             /\ UNCHANGED <<paths, selectedPoints, initialPointPos>>
        ELSE \E hit \in {AnchorHitFrom(paths, 1, position)} :
             IF hit # Null
             THEN /\ startDraggingPoint(hit.p, hit.anchorPoint)
                  /\ dragStartPos' = position
                  /\ initialPointPos' = hit.anchorPoint.position
                  /\ dragOrigin' = [s |-> position,
                                    q |-> hit.anchorPoint.position,
                                    point |-> hit.anchorPoint.id]
             ELSE /\ IF ~isShiftPressed
                     THEN /\ paths' = clearSelection(paths)
                          /\ selectedPoints' = {}
                     ELSE UNCHANGED <<paths, selectedPoints>>
                  /\ UNCHANGED <<isDragging, dragType, dragTarget,
                                 dragStartPos, initialPointPos, dragOrigin>>

\* DraggedPosition with the delta taken from the pointer to the drag start
DraggedPositionInverted(initial, start, position) ==
    add(initial, subtract(start, position))

\* the anchor branch of onMouseMove: the new position of the dragged anchor
DraggedPosition(initial, start, position) ==
    add(initial, subtract(position, start))

\* the handle branch of onMouseMove: the Alt override, then updateHandle
DragHandle(point, position) ==
    LET forced ==
            IF isAltPressed /\ originalMirrorMode = None
            THEN [point EXCEPT !.mirrorMode = Independent]
            ELSE IF ~isAltPressed /\ originalMirrorMode # None
            THEN [point EXCEPT !.mirrorMode = originalMirrorMode]
            ELSE point
    IN  updateHandle(forced, dragType = "handle-out", position)

onMouseMove(position) ==
    IF ~isDragging
    THEN /\ \E closest \in {ClosestOnPaths(paths, position)} :
            \E hover \in {updateHoverPreview(closest, hoverPreviewPoint,
                                             hoverPreviewPath)} :
                /\ hoverPreviewPoint' = hover.point
                /\ hoverPreviewPath' = hover.path
         /\ UNCHANGED <<storeVars, selectedPoints, dragVars>>
    ELSE IF dragTarget = Null \/ dragStartPos = Null
    THEN UNCHANGED <<storeVars, selectedPoints, dragVars, hoverVars>>
    ELSE IF dragType = "point" /\ initialPointPos # Null
    THEN /\ paths' = [paths EXCEPT ![PathIndex(paths, dragTarget.path)] =
                         moveAnchorPoint(@, dragTarget.point,
                             DraggedPosition(initialPointPos, dragStartPos,
                                             position))]
         /\ UNCHANGED <<idCounter, minted, selectedPoints, dragVars,
                        hoverVars>>
    ELSE IF dragType = "handle-in" \/ dragType = "handle-out"
    THEN /\ originalMirrorMode' =
                IF isAltPressed /\ originalMirrorMode = None
                THEN TargetPoint(paths, dragTarget).mirrorMode
                ELSE IF ~isAltPressed /\ originalMirrorMode # None
                THEN None
                ELSE originalMirrorMode
         /\ AssignTarget(DragHandle(TargetPoint(paths, dragTarget),
                                    position))
         /\ UNCHANGED <<idCounter, minted, selectedPoints, isDragging,
                        dragType, dragStartPos, initialPointPos, hoverVars>>
    ELSE UNCHANGED <<storeVars, selectedPoints, dragVars, hoverVars>>

\* the restoring assignment of onMouseUp and onKeyUp
RestoreMirrorMode ==
    IF originalMirrorMode # None /\ dragTarget # Null
    THEN AssignTarget([TargetPoint(paths, dragTarget) EXCEPT
                          !.mirrorMode = originalMirrorMode])
    ELSE UNCHANGED <<paths, dragTarget>>

onMouseUp ==
    /\ IF originalMirrorMode # None /\ dragTarget # Null
       THEN paths' = IF dragTarget.detached # Null THEN paths
                     ELSE [paths EXCEPT
                              ![PathIndex(paths, dragTarget.path)]
                                  .anchorPoints =
                                  [@ EXCEPT
                                      ![FindIndex(@, dragTarget.point) + 1]
                                          .mirrorMode = originalMirrorMode]]
       ELSE UNCHANGED paths
    /\ isDragging' = FALSE
    /\ dragType' = None
    /\ dragTarget' = Null
    /\ dragStartPos' = Null
    /\ initialPointPos' = Null
    /\ originalMirrorMode' =
           IF originalMirrorMode # None /\ dragTarget # Null
           THEN None ELSE originalMirrorMode
    /\ dragOrigin' = Null
    /\ UNCHANGED <<idCounter, minted, selectedPoints, hoverVars>>

\* the ids of the anchors getSelectedPoints returns
getSelectedPoints(allPaths, selected) ==
    {point.id : point \in
        {point \in UNION {{allPaths[p].anchorPoints[k] :
                              k \in 1..Len(allPaths[p].anchorPoints)} :
                          p \in 1..Len(allPaths)} : point.id \in selected}}

\* the anchors one path loses in deleteSelectedPoints, in path order
pointsToDelete(path, selected) ==
    SelectSeq(path.anchorPoints, LAMBDA point : point.id \in selected)

RECURSIVE RemovePoints(_, _, _)
RemovePoints(path, points, k) ==
    IF k > Len(points) THEN path
    ELSE RemovePoints(removeAnchorPoint(path, points[k].id), points, k + 1)

\* deleteSelectedPoints that also drops the paths it leaves without anchors
deleteSelectedPointsAndEmptyPaths(allPaths, selected) ==
    SelectSeq([p \in 1..Len(allPaths) |->
                  RemovePoints(allPaths[p],
                               pointsToDelete(allPaths[p], selected), 1)],
              LAMBDA path : Len(path.anchorPoints) > 0)

deleteSelectedPoints(allPaths, selected) ==
    [p \in 1..Len(allPaths) |->
        RemovePoints(allPaths[p], pointsToDelete(allPaths[p], selected), 1)]

DeletedIds(allPaths, selected) ==
    selected \cap
        UNION {{allPaths[p].anchorPoints[k].id :
                   k \in 1..Len(allPaths[p].anchorPoints)} :
               p \in 1..Len(allPaths)}

onKeyDown(key) ==
    IF key = "Shift"
    THEN /\ isShiftPressed' = TRUE
         /\ UNCHANGED <<storeVars, selectedPoints, dragVars, hoverVars,
                        isAltPressed, dragOrigin>>
    ELSE IF key = "Alt"
    THEN /\ isAltPressed' = TRUE
         /\ UNCHANGED <<storeVars, selectedPoints, dragVars, hoverVars,
                        isShiftPressed, dragOrigin>>
    ELSE IF key = "Delete" \/ key = "Backspace"
    THEN /\ paths' = deleteSelectedPoints(paths, selectedPoints)
         /\ selectedPoints' =
                selectedPoints \ DeletedIds(paths, selectedPoints)
         /\ dragTarget' =
                IF /\ dragTarget # Null
                   /\ dragTarget.detached = Null
                   /\ dragTarget.point \in selectedPoints
                THEN [dragTarget EXCEPT
                         !.detached = TargetPoint(paths, dragTarget)]
                ELSE dragTarget
         /\ UNCHANGED <<idCounter, minted, isDragging, dragType,
                        dragStartPos, initialPointPos, originalMirrorMode,
                        hoverVars, keyVars, dragOrigin>>
    ELSE UNCHANGED <<storeVars, editVars>>

onKeyUp(key) ==
    IF key = "Shift"
    THEN /\ isShiftPressed' = FALSE
         /\ UNCHANGED <<storeVars, selectedPoints, dragVars, hoverVars,
                        isAltPressed, dragOrigin>>
    ELSE IF key = "Alt"
    THEN /\ isAltPressed' = FALSE
         /\ RestoreMirrorMode
         /\ originalMirrorMode' =
                IF originalMirrorMode # None /\ dragTarget # Null
                THEN None ELSE originalMirrorMode
         /\ UNCHANGED <<idCounter, minted, selectedPoints, isDragging,
                        dragType, dragStartPos, initialPointPos, hoverVars,
                        isShiftPressed, dragOrigin>>
    ELSE UNCHANGED <<storeVars, editVars>>

\* notifySelectionChange: the call of the onSelectionChange observer, with
\* the ids of the anchors of the store that are in selectedPoints
notifySelectionChange(allPaths, selected) ==
    [callback |-> "onSelectionChange",
     points |-> getSelectedPoints(allPaths, selected)]

\* notifyPathModified: the call of the onPathModified observer
notifyPathModified(pathId) ==
    [callback |-> "onPathModified", path |-> pathId]

\* the observer calls of onMouseDown, in order: none for a handle hit;
\* clearSelection (unless Shift is held) and selectPoint for an anchor hit;
\* clearSelection (unless Shift is held) otherwise
onMouseDownCalls(position) ==
    LET cleared == IF ~isShiftPressed
                   THEN <<notifySelectionChange(paths, {})>>
                   ELSE <<>>
    IN  IF FirstHandleHit(paths, position) # Null THEN <<>>
        ELSE LET hit == AnchorHitFrom(paths, 1, position)
             IN  IF hit # Null
                 THEN cleared \o
                      <<notifySelectionChange(paths,
                            (IF ~isShiftPressed THEN {} ELSE selectedPoints)
                                \cup {hit.anchorPoint.id})>>
                 ELSE cleared

\* the observer calls of onMouseMove: one onPathModified in each drag branch
onMouseMoveCalls ==
    IF ~isDragging THEN <<>>
    ELSE IF dragTarget = Null \/ dragStartPos = Null THEN <<>>
    ELSE IF \/ dragType = "point" /\ initialPointPos # Null
            \/ dragType = "handle-in"
            \/ dragType = "handle-out"
    THEN <<notifyPathModified(dragTarget.path)>>
    ELSE <<>>

\* the observer calls of deleteSelectedPoints: onPathModified for each path
\* that lost anchors, in store order, then onSelectionChange
deleteSelectedPointsCalls ==
    LET touched == SelectSeq(paths, LAMBDA path :
                       Len(pointsToDelete(path, selectedPoints)) > 0)
    IN  [k \in 1..Len(touched) |-> notifyPathModified(touched[k].id)]
        \o <<notifySelectionChange(
                 deleteSelectedPoints(paths, selectedPoints),
                 selectedPoints \ DeletedIds(paths, selectedPoints))>>

\* the observer calls of onKeyDown
onKeyDownCalls(key) ==
    IF key = "Delete" \/ key = "Backspace"
    THEN deleteSelectedPointsCalls
    ELSE <<>>

\* onMouseMove(position) on the three-anchor path
OnMouseMove ==
    \E position \in Pointers :
        /\ \A p \in 1..Len(paths) : Len(paths[p].anchorPoints) < MaxAnchors
        /\ onMouseMove(position)
        /\ UNCHANGED penVars
        /\ last' = [op |-> "onMouseMove", position |-> position]
        /\ UNCHANGED <<keyVars, dragOrigin>>

\* onDoubleClick(_position); the position argument is not read
OnDoubleClick ==
    IF hoverPreviewPoint # Null /\ hoverPreviewPath # Null
    THEN \E p \in {PathIndex(paths, hoverPreviewPath)} :
         \E hit \in {SegmentNear(getSegments(paths[p]),
                                 hoverPreviewPoint)} :
             IF hit # Null
             THEN \E newPoint \in {MintedId(idCounter)} :
                  /\ paths' = [paths EXCEPT ![p] =
                                  InsertOnSegment(@, newPoint,
                                      getSegments(@)[hit.i + 1], hit.i,
                                      hit.t, hoverPreviewPoint)]
                  /\ idCounter' = generateId(idCounter)
                  /\ minted' = Append(minted, newPoint)
                  /\ selectedPoints' = selectedPoints \cup {newPoint}
                  /\ hoverPreviewPoint' = Null
                  /\ hoverPreviewPath' = Null
                  /\ UNCHANGED <<dragVars, keyVars, dragOrigin>>
                  /\ UNCHANGED penVars
                  /\ last' = [op |-> "onDoubleClick", result |-> TRUE,
                              path |-> p, i |-> hit.i, t |-> hit.t,
                              point |-> hoverPreviewPoint,
                              before |-> paths[p]]
             ELSE /\ last' = [op |-> "onDoubleClick", result |-> FALSE]
                  /\ UNCHANGED <<storeVars, editVars, penVars>>
    ELSE /\ last' = [op |-> "onDoubleClick", result |-> FALSE]
         /\ UNCHANGED <<storeVars, editVars, penVars>>

NextEdit == OnMouseMove \/ OnDoubleClick

SpecEdit == InitEdit /\ [][NextEdit]_vars

----------------------------------------------------------------------------
(* Claims about the edit machine (SpecEdit) *)

\* the curve a derived segment traces: its end points and control points
Geometry(segment) ==
    IF segment.type = CubicBezier
    THEN [type |-> CubicBezier, p0 |-> segment.startPoint.position,
          cp1 |-> segment.controlPoint1, cp2 |-> segment.controlPoint2,
          p3 |-> segment.endPoint.position]
    ELSE [type |-> Line, p0 |-> segment.startPoint.position,
          p3 |-> segment.endPoint.position]

CubicGeometry(curve) ==
    [type |-> CubicBezier, p0 |-> curve.p0, cp1 |-> curve.cp1,
     cp2 |-> curve.cp2, p3 |-> curve.p3]

SampleParameters == {RDiv(I(k), I(samples)) : k \in 0..samples}

\* C4: when a double-click inserts an anchor on a cubic segment i of the
\* hovered path, the path gains exactly one anchor, at index i + 1, and for
\* the curve parameter t of the hover point the derived segments i and i + 1
\* are afterwards curve1 and curve2 of the De Casteljau subdivision of the
\* original segment at t (start point, both control points, end point);
\* every other segment of the path is unchanged.
C4_InsertionSubdividesAtHoverPoint ==
    (last.op = "onDoubleClick" /\ last.result
       /\ getSegments(last.before)[last.i + 1].type = CubicBezier) =>
        LET before == last.before
            after == paths[last.path]
            i == last.i
            old == getSegments(before)
            new == getSegments(after)
            segment == old[i + 1]
        IN  /\ Len(after.anchorPoints) = Len(before.anchorPoints) + 1
            /\ \A k \in 1..Len(before.anchorPoints) :
                   before.anchorPoints[k].id =
                       after.anchorPoints[IF k <= i + 1 THEN k ELSE k + 1].id
            /\ \A k \in 1..Len(before.anchorPoints) :
                   after.anchorPoints[i + 2].id # before.anchorPoints[k].id
            /\ Len(new) = Len(old) + 1
            /\ \E t \in SampleParameters :
                   LET subdivided ==
                           subdivideCubicBezier(segment.startPoint.position,
                                                segment.controlPoint1,
                                                segment.controlPoint2,
                                                segment.endPoint.position, t)
                   IN  /\ Geometry(new[i + 1])
                            = CubicGeometry(subdivided.curve1)
                       /\ Geometry(new[i + 2])
                            = CubicGeometry(subdivided.curve2)
            /\ \A j \in 1..Len(old) :
                   j # i + 1 =>
                       Geometry(new[IF j <= i THEN j ELSE j + 1])
                           = Geometry(old[j])


----------------------------------------------------------------------------
(* The edit machine under pointer and key events.  Three paths: the first
   and the third hold one anchor with an out-handle each, so they have no
   segment; the second is a polyline of three anchors, no segment of which
   comes within hoverDistance of a pointer position.

   SpecDrag  : pointer-down, pointer-move, pointer-up, Alt down and up
   SpecSelect: pointer-down, pointer-up, Shift down and up, Delete and
               Backspace *)

DragPointers == {Pt(104, 4), Pt(0, 0)}

SelectPointers == {Pt(104, 4), Pt(97, 7), Pt(96, 12), Pt(0, 96), Pt(0, 0)}

DragKeys == {"Alt"}

SelectKeys == {"Shift", "Delete", "Backspace"}

\* a path of one anchor with an out-handle; k numbers the path's id
HandlePath(k, position, handleOut, mode) ==
    [addAnchorPoint(NewPath(MintedId(k)), MintedId(k + 1), position, Null,
                    handleOut)
        EXCEPT !.anchorPoints[1] =
                   IF mode = Mirrored THEN @ ELSE setMirrorMode(@, mode)]

\* a polyline of three anchors; k numbers the path's id
Polyline(k, first, second, third) ==
    addAnchorPoint(
        addAnchorPoint(
            addAnchorPoint(NewPath(MintedId(k)), MintedId(k + 1), first,
                           Null, Null),
            MintedId(k + 2), second, Null, Null),
        MintedId(k + 3), third, Null, Null)

DragPaths ==
    <<HandlePath(0, Pt(104, -40), Pt(0, 40), Mirrored),
      HandlePath(2, Pt(100, 6), Pt(6, 2), Independent)>>

SelectPaths ==
    <<HandlePath(0, Pt(104, -40), Pt(0, 40), Mirrored),
      Polyline(2, Pt(98, 2), Pt(0, 100), Pt(-100, 100)),
      HandlePath(6, Pt(100, 6), Pt(6, 2), Independent)>>

\* the edit machine at rest on the given paths, which hold every id minted
InitOn(allPaths, counter) ==
    /\ paths = allPaths
    /\ idCounter = counter
    /\ minted = [k \in 1..counter |-> MintedId(k - 1)]
    /\ selectedPoints = {}
    /\ hoverPreviewPoint = Null
    /\ hoverPreviewPath = Null
    /\ NoDrag
    /\ isShiftPressed = FALSE
    /\ isAltPressed = FALSE
    /\ dragOrigin = Null
    /\ PenIdle
    /\ last = [op |-> "init"]

InitDrag == InitOn(DragPaths, 4)

InitSelect == InitOn(SelectPaths, 8)

\* the value onMouseDown returns: true from inside either loop, false after
\* them
onMouseDownResult(position) ==
    IF FirstHandleHit(paths, position) # Null THEN TRUE
    ELSE IF AnchorHitFrom(paths, 1, position) # Null THEN TRUE
    ELSE FALSE

MouseDown(position) ==
    /\ onMouseDown(position)
    /\ UNCHANGED penVars
    /\ last' = [op |-> "onMouseDown", position |-> position,
                result |-> onMouseDownResult(position),
                calls |-> onMouseDownCalls(position)]
    /\ UNCHANGED <<idCounter, minted, originalMirrorMode, hoverVars,
                   keyVars>>

MouseUp ==
    /\ onMouseUp
    /\ UNCHANGED penVars
    /\ last' = [op |-> "onMouseUp", calls |-> <<>>]
    /\ UNCHANGED keyVars

PressKey(key) ==
    /\ onKeyDown(key)
    /\ UNCHANGED penVars
    /\ last' = [op |-> "onKeyDown", key |-> key,
                calls |-> onKeyDownCalls(key)]

ReleaseKey(key) ==
    /\ onKeyUp(key)
    /\ UNCHANGED penVars
    /\ last' = [op |-> "onKeyUp", key |-> key, calls |-> <<>>]

PointerDown == \E position \in DragPointers : MouseDown(position)

PointerMove ==
    \E position \in DragPointers :
        /\ onMouseMove(position)
        /\ UNCHANGED penVars
        /\ last' = [op |-> "onMouseMove", position |-> position,
                    calls |-> onMouseMoveCalls]
        /\ UNCHANGED <<keyVars, dragOrigin>>

PointerUp == MouseUp

KeyDown == \E key \in DragKeys : PressKey(key)

KeyUp == \E key \in DragKeys : ReleaseKey(key)

NextDrag == PointerDown \/ PointerMove \/ PointerUp \/ KeyDown \/ KeyUp

SpecDrag == InitDrag /\ [][NextDrag]_vars

SelectDown == \E position \in SelectPointers : MouseDown(position)

SelectUp == MouseUp

SelectKeyDown == \E key \in SelectKeys : PressKey(key)

SelectKeyUp == \E key \in SelectKeys : ReleaseKey(key)

NextSelect == SelectDown \/ SelectUp \/ SelectKeyDown \/ SelectKeyUp

SpecSelect == InitSelect /\ [][NextSelect]_vars


----------------------------------------------------------------------------
(* Claims about pointer and key events (SpecDrag, SpecSelect) *)

\* the anchors of the store
StoreAnchors ==
    UNION {{paths[p].anchorPoints[k] : k \in 1..Len(paths[p].anchorPoints)} :
           p \in 1..Len(paths)}

\* C11: during an anchor drag started by a pointer-down at s on an anchor
\* that was at q, after every pointer-move the anchor is at q + (p - s),
\* p being the position of that pointer-move, however many pointer-moves
\* came before it
C11_PointDragFollowsPointer ==
    (last.op = "onMouseMove" /\ dragOrigin # Null) =>
        \A point \in StoreAnchors :
            point.id = dragOrigin.point =>
                point.position =
                    add(dragOrigin.q, subtract(last.position, dragOrigin.s))

\* an anchor drag has moved its anchor away from where the drag found it
C11_Witness ==
    /\ last.op = "onMouseMove"
    /\ dragOrigin # Null
    /\ last.position # dragOrigin.s
    /\ \E point \in StoreAnchors :
           /\ point.id = dragOrigin.point
           /\ point.position # dragOrigin.q
           /\ point.position # last.position


\* the mirrorMode an anchor of DragPaths has before any event
ModeBefore(id) ==
    (CHOOSE point \in
        UNION {{DragPaths[p].anchorPoints[k] :
                   k \in 1..Len(DragPaths[p].anchorPoints)} :
               p \in 1..Len(DragPaths)} : point.id = id).mirrorMode

\* a handle drag is in progress
HandleDrag ==
    /\ isDragging
    /\ dragTarget # Null
    /\ dragType \in {"handle-in", "handle-out"}

\* C12: for every interleaving of pointer-down, pointer-move, pointer-up and
\* Alt key-down and key-up: every pointer-move of a handle drag made while
\* Alt is held leaves the dragged anchor Independent; and an anchor's
\* mirrorMode differs from the one it had before only while it is the anchor
\* of a handle drag in progress with Alt held, so once the drag has ended or
\* Alt has been released the dragged anchor has its mode back, and no other
\* anchor's mode is ever changed
C12_AltOverrideIsTemporary ==
    /\ (last.op = "onMouseMove" /\ HandleDrag /\ isAltPressed) =>
           \A point \in StoreAnchors :
               point.id = dragTarget.point => point.mirrorMode = Independent
    /\ \A point \in StoreAnchors :
           point.mirrorMode # ModeBefore(point.id) =>
               /\ HandleDrag
               /\ isAltPressed
               /\ dragTarget.point = point.id
               /\ point.mirrorMode = Independent


\* a visible handle of the anchor is within the hit threshold of the position
HandleWithin(point, isOut, position) ==
    LET handle == IF isOut THEN point.handleOut ELSE point.handleIn
    IN  /\ Visible(handle)
        /\ RLeq(SquaredDistance(position,
                                add(point.position, handle.position)),
                I(hitThreshold * hitThreshold))

AnchorWithin(point, position) ==
    RLeq(SquaredDistance(position, point.position),
         I(hitThreshold * hitThreshold))

\* the places <<p, k>> of the anchors of the store, and store order on them
Places ==
    UNION {{<<p, k>> : k \in 1..Len(paths[p].anchorPoints)} :
           p \in 1..Len(paths)}

Before(r, s) == r[1] < s[1] \/ (r[1] = s[1] /\ r[2] < s[2])

PlacesWithHandleAt(position) ==
    {r \in Places : \E isOut \in BOOLEAN :
        HandleWithin(paths[r[1]].anchorPoints[r[2]], isOut, position)}

PathsWithAnchorAt(position) ==
    {p \in 1..Len(paths) :
        \E k \in 1..Len(paths[p].anchorPoints) :
            AnchorWithin(paths[p].anchorPoints[k], position)}

\* C13: a pointer-down that is within the threshold 8 of a visible handle of
\* some anchor starts a drag of a handle of the first such anchor in store
\* order, whether or not an anchor is within the threshold too; otherwise,
\* if some path has an anchor within the threshold, it starts an anchor drag
\* on the first such path in store order, of an anchor of that path that is
\* within the threshold; otherwise it starts no drag
C13_HandlesBeforeAnchors ==
    [][last'.op = "onMouseDown" =>
        LET position == last'.position
            handles == PlacesWithHandleAt(position)
            anchors == PathsWithAnchorAt(position)
        IN  IF handles # {}
            THEN \E r \in handles :
                    /\ \A s \in handles : ~Before(s, r)
                    /\ isDragging'
                    /\ dragTarget'.path = paths[r[1]].id
                    /\ dragTarget'.point = paths[r[1]].anchorPoints[r[2]].id
                    /\ dragType' \in {"handle-in", "handle-out"}
                    /\ HandleWithin(paths[r[1]].anchorPoints[r[2]],
                                    dragType' = "handle-out", position)
            ELSE IF anchors # {}
            THEN \E p \in anchors :
                    /\ \A q \in anchors : p <= q
                    /\ isDragging'
                    /\ dragType' = "point"
                    /\ dragTarget'.path = paths[p].id
                    /\ \E k \in 1..Len(paths[p].anchorPoints) :
                          /\ dragTarget'.point = paths[p].anchorPoints[k].id
                          /\ AnchorWithin(paths[p].anchorPoints[k], position)
            ELSE UNCHANGED dragVars]_vars

\* a pointer-down has started a handle drag on the first path although an
\* anchor of a later path and a handle of a still later one are within reach
C13_Witness ==
    /\ last.op = "onMouseDown"
    /\ HandleDrag
    /\ dragTarget.path = paths[1].id
    /\ \E r \in PlacesWithHandleAt(last.position) : r[1] > 1
    /\ PathsWithAnchorAt(last.position) # {}


\* C14: a pointer-down that hits a handle or an anchor leaves, without Shift,
\* exactly the hit anchor selected and, with Shift, the earlier selection
\* plus the hit anchor; a pointer-down on empty space leaves the selection
\* empty without Shift and as it was with Shift
C14_ClickSelectsHitTarget ==
    [][last'.op = "onMouseDown" =>
        LET position == last'.position
            hit == \/ PlacesWithHandleAt(position) # {}
                   \/ PathsWithAnchorAt(position) # {}
            before == getSelectedPoints(paths, selectedPoints)
            after == getSelectedPoints(paths', selectedPoints')
        IN  IF hit
            THEN after = (IF isShiftPressed THEN before ELSE {})
                            \cup {dragTarget'.point}
            ELSE after = (IF isShiftPressed THEN before ELSE {})]_vars


\* C15: a Delete or Backspace key-down leaves every path of the store in
\* place, each with exactly its anchors that were not selected, unchanged
\* and in their order, also when that is one anchor or none; and afterwards
\* getSelectedPoints is empty
C15_DeleteRemovesSelection ==
    [][(last'.op = "onKeyDown" /\ last'.key \in {"Delete", "Backspace"}) =>
        LET before == getSelectedPoints(paths, selectedPoints)
        IN  /\ Len(paths') = Len(paths)
            /\ \A p \in 1..Len(paths) :
                   paths'[p] =
                       [paths[p] EXCEPT !.anchorPoints =
                           SelectSeq(@, LAMBDA point :
                                            point.id \notin before)]
            /\ getSelectedPoints(paths', selectedPoints') = {}]_vars

\* a key press has deleted anchors: the polyline is left with one anchor,
\* the third path with none, and all three paths are still in the store
C15_Witness ==
    /\ last.op = "onKeyDown"
    /\ last.key \in {"Delete", "Backspace"}
    /\ Len(paths) = 3
    /\ Len(paths[1].anchorPoints) = 1
    /\ Len(paths[2].anchorPoints) = 1
    /\ paths[2].anchorPoints[1].id = MintedId(5)
    /\ Len(paths[3].anchorPoints) = 0


----------------------------------------------------------------------------
(* Import of path data into a fresh store (SpecImport) *)

MaxImports == 2

\* "M 5 5 c 10 0 10 10 0 10 C 1 2 3 4 5 6 z"
TextRelativeCurves ==
    <<"M", " ", "5", " ", "5", " ", "c", " ", "1", "0", " ", "0", " ", "1",
      "0", " ", "1", "0", " ", "0", " ", "1", "0", " ", "C", " ", "1", " ",
      "2", " ", "3", " ", "4", " ", "5", " ", "6", " ", "z">>

\* "C 1 2 3 4 5 6"
TextCurveOnly ==
    <<"C", " ", "1", " ", "2", " ", "3", " ", "4", " ", "5", " ", "6">>

\* "M 1 1 L 2 3 4 5"
TextLines ==
    <<"M", " ", "1", " ", "1", " ", "L", " ", "2", " ", "3", " ", "4", " ",
      "5">>

\* "M 1 1 L 2 3 L 4 5"
TextLinesExpanded ==
    <<"M", " ", "1", " ", "1", " ", "L", " ", "2", " ", "3", " ", "L", " ",
      "4", " ", "5">>

\* "M 1 1 l 2 3 4 5"
TextRelativeLines ==
    <<"M", " ", "1", " ", "1", " ", "l", " ", "2", " ", "3", " ", "4", " ",
      "5">>

\* "M 1 1 l 2 3 l 4 5"
TextRelativeLinesExpanded ==
    <<"M", " ", "1", " ", "1", " ", "l", " ", "2", " ", "3", " ", "l", " ",
      "4", " ", "5">>

\* "M 1 1 H 2 3 v 4 5"
TextHorizontals ==
    <<"M", " ", "1", " ", "1", " ", "H", " ", "2", " ", "3", " ", "v", " ",
      "4", " ", "5">>

\* "M 1 1 H 2 H 3 v 4 v 5"
TextHorizontalsExpanded ==
    <<"M", " ", "1", " ", "1", " ", "H", " ", "2", " ", "H", " ", "3", " ",
      "v", " ", "4", " ", "v", " ", "5">>

\* "M 0 0 C 1 2 3 4 5 6 7 8 9 10 11 12"
TextCurves ==
    <<"M", " ", "0", " ", "0", " ", "C", " ", "1", " ", "2", " ", "3", " ",
      "4", " ", "5", " ", "6", " ", "7", " ", "8", " ", "9", " ", "1", "0",
      " ", "1", "1", " ", "1", "2">>

\* "M 0 0 C 1 2 3 4 5 6 C 7 8 9 10 11 12"
TextCurvesExpanded ==
    <<"M", " ", "0", " ", "0", " ", "C", " ", "1", " ", "2", " ", "3", " ",
      "4", " ", "5", " ", "6", " ", "C", " ", "7", " ", "8", " ", "9", " ",
      "1", "0", " ", "1", "1", " ", "1", "2">>

\* "M 0 0 C 1 2 3 4 5 6 s 1 2 3 4 5 6 7 8"
TextSmooths ==
    <<"M", " ", "0", " ", "0", " ", "C", " ", "1", " ", "2", " ", "3", " ",
      "4", " ", "5", " ", "6", " ", "s", " ", "1", " ", "2", " ", "3", " ",
      "4", " ", "5", " ", "6", " ", "7", " ", "8">>

\* "M 0 0 C 1 2 3 4 5 6 s 1 2 3 4 s 5 6 7 8"
TextSmoothsExpanded ==
    <<"M", " ", "0", " ", "0", " ", "C", " ", "1", " ", "2", " ", "3", " ",
      "4", " ", "5", " ", "6", " ", "s", " ", "1", " ", "2", " ", "3", " ",
      "4", " ", "s", " ", "5", " ", "6", " ", "7", " ", "8">>

\* "Z"
TextClose ==
    <<"Z">>

\* "Q 1 2 3 4"
TextQuadratic ==
    <<"Q", " ", "1", " ", "2", " ", "3", " ", "4">>

\* "M 0 0 Q 5 5 9 9 l 7 7"
TextWithQuadratic ==
    <<"M", " ", "0", " ", "0", " ", "Q", " ", "5", " ", "5", " ", "9", " ",
      "9", " ", "l", " ", "7", " ", "7">>

\* "M 0 0 l 7 7"
TextWithoutQuadratic ==
    <<"M", " ", "0", " ", "0", " ", "l", " ", "7", " ", "7">>

\* "M 0 0 C 1 2 3 4 5 6 T 8 8 S 1 1 2 2 a 5 5 0 0 1 9 9 z"
TextWithArcs ==
    <<"M", " ", "0", " ", "0", " ", "C", " ", "1", " ", "2", " ", "3", " ",
      "4", " ", "5", " ", "6", " ", "T", " ", "8", " ", "8", " ", "S", " ",
      "1", " ", "1", " ", "2", " ", "2", " ", "a", " ", "5", " ", "5", " ",
      "0", " ", "0", " ", "1", " ", "9", " ", "9", " ", "z">>

\* "M 0 0 C 1 2 3 4 5 6 S 1 1 2 2 z"
TextWithoutArcs ==
    <<"M", " ", "0", " ", "0", " ", "C", " ", "1", " ", "2", " ", "3", " ",
      "4", " ", "5", " ", "6", " ", "S", " ", "1", " ", "1", " ", "2", " ",
      "2", " ", "z">>

\* "M 2 2 S 1 2 3 4"
TextSmoothFirst ==
    <<"M", " ", "2", " ", "2", " ", "S", " ", "1", " ", "2", " ", "3", " ",
      "4">>

\* "M 0 0 C 1 2 3 4 5 6 L 8 8 S 1 2 3 4"
TextSmoothAfterLine ==
    <<"M", " ", "0", " ", "0", " ", "C", " ", "1", " ", "2", " ", "3", " ",
      "4", " ", "5", " ", "6", " ", "L", " ", "8", " ", "8", " ", "S", " ",
      "1", " ", "2", " ", "3", " ", "4">>

\* "M 0 0 C 1 2 3 4 5 6 Z S 7 8 9 9"
TextSmoothAfterClose ==
    <<"M", " ", "0", " ", "0", " ", "C", " ", "1", " ", "2", " ", "3", " ",
      "4", " ", "5", " ", "6", " ", "Z", " ", "S", " ", "7", " ", "8", " ",
      "9", " ", "9">>

\* "M 0 0 C 1 2 3 4 5 6 M 9 9 S 7 8 9 9"
TextSmoothAfterMove ==
    <<"M", " ", "0", " ", "0", " ", "C", " ", "1", " ", "2", " ", "3", " ",
      "4", " ", "5", " ", "6", " ", "M", " ", "9", " ", "9", " ", "S", " ",
      "7", " ", "8", " ", "9", " ", "9">>

\* texts with a smooth curve after a move, a line, a close and a move
\* inside the path
SmoothTexts ==
    {TextSmoothFirst, TextSmoothAfterLine, TextSmoothAfterClose,
     TextSmoothAfterMove}

\* a text with repeated argument groups, and the same text with the command
\* letter written before every group
Shorthands ==
    {<<TextLines, TextLinesExpanded>>,
     <<TextRelativeLines, TextRelativeLinesExpanded>>,
     <<TextHorizontals, TextHorizontalsExpanded>>,
     <<TextCurves, TextCurvesExpanded>>,
     <<TextSmooths, TextSmoothsExpanded>>}

\* a text with unsupported commands, and the same text without them
Unsupported ==
    {<<TextWithQuadratic, TextWithoutQuadratic>>,
     <<TextWithArcs, TextWithoutArcs>>,
     <<TextQuadratic, <<>> >>}

CodecTexts ==
    {<<>>, TextLine, TextCurve, TextRelativeCurves, TextCurveOnly, TextClose}
    \cup {pair[1] : pair \in Shorthands \cup Unsupported}
    \cup SmoothTexts

\* the attributes d and stroke of a path element, the empty text standing
\* for an attribute that is missing or empty; stroke-width and fill missing
Element(d, stroke) == [d |-> d, stroke |-> stroke]

Elements ==
    {Element(<<>>, ""), Element(TextClose, ""), Element(TextLine, "#ff0000")}

ElementLists == {<<e>> : e \in Elements} \cup (Elements \X Elements)

\* the options importFromSVGElement passes on: `attribute || undefined`,
\* an undefined option being as falsy as the empty one, and
\* parseFloat(attribute || '2')
ElementOptions(element) ==
    [stroke |-> element.stroke, strokeWidth |-> 2, fill |-> ""]

\* importFromSVGElement from element k on: `added` are the paths the store
\* has gained, `importedPaths` the result list
RECURSIVE ImportElements(_, _, _)
ImportElements(st, elements, k) ==
    IF k > Len(elements) THEN st
    ELSE IF elements[k].d # <<>>
    THEN LET imported == importFromSVG(st.idCounter, elements[k].d,
                                       ElementOptions(elements[k]))
         IN  ImportElements(
                 [added |-> Append(st.added, imported.path),
                  importedPaths |->
                      IF imported.path # Null
                      THEN Append(st.importedPaths, imported.path)
                      ELSE st.importedPaths,
                  idCounter |-> imported.idCounter],
                 elements, k + 1)
    ELSE ImportElements(st, elements, k + 1)

importFromSVGElement(counter, elements) ==
    ImportElements([added |-> <<>>, importedPaths |-> <<>>,
                    idCounter |-> counter], elements, 1)

InitImport ==
    /\ paths = <<>>
    /\ idCounter = 0
    /\ minted = <<>>
    /\ selectedPoints = {}
    /\ hoverPreviewPoint = Null
    /\ hoverPreviewPath = Null
    /\ NoDrag
    /\ isShiftPressed = FALSE
    /\ isAltPressed = FALSE
    /\ dragOrigin = Null
    /\ PenIdle
    /\ last = [op |-> "init"]

\* importFromSVG(pathData) on a store that holds fewer than MaxImports paths
ImportText ==
    /\ Len(paths) < MaxImports
    /\ \E pathData \in CodecTexts :
       \E imported \in {importFromSVG(idCounter, pathData, <<>>)} :
           /\ paths' = Append(paths, imported.path)
           /\ idCounter' = imported.idCounter
           /\ minted' = minted \o [k \in 1..(imported.idCounter - idCounter)
                                       |-> MintedId(idCounter + k - 1)]
           /\ UNCHANGED penVars
           /\ last' = [op |-> "importFromSVG", pathData |-> pathData,
                       before |-> paths, result |-> imported.path]
    /\ UNCHANGED editVars

\* importFromSVGElement(svgElement), on the path elements of svgElement
ImportElement ==
    /\ Len(paths) < MaxImports
    /\ \E elements \in ElementLists :
       \E imported \in {importFromSVGElement(idCounter, elements)} :
           /\ paths' = paths \o imported.added
           /\ idCounter' = imported.idCounter
           /\ minted' = minted \o [k \in 1..(imported.idCounter - idCounter)
                                       |-> MintedId(idCounter + k - 1)]
           /\ UNCHANGED penVars
           /\ last' = [op |-> "importFromSVGElement",
                       elements |-> elements, before |-> paths,
                       result |-> imported.importedPaths]
    /\ UNCHANGED editVars

NextImport == ImportText \/ ImportElement

SpecImport == InitImport /\ [][NextImport]_vars


----------------------------------------------------------------------------
(* Claims about import (SpecImport) *)

\* what an import is judged by: positions and handles of the anchors in
\* order, and the closed flag
Shape(path) ==
    [anchorPoints |->
        [k \in 1..Len(path.anchorPoints) |->
            [position |-> path.anchorPoints[k].position,
             handleIn |-> path.anchorPoints[k].handleIn,
             handleOut |-> path.anchorPoints[k].handleOut]],
     closed |-> path.closed]

\* the import loop after the first k commands of the text
Walk(pathData, k) ==
    ImportCommands([path |-> NewPath(MintedId(0)), counter |-> 1,
                    currentPoint |-> Pt(0, 0), lastControlPoint |-> Null],
                   SubSeq(parseSVGPath(pathData), 1, k))

\* command k of the text is a cubic command that does what C16 says
CubicStep(pathData, k) ==
    LET cmd == parseSVGPath(pathData)[k]
        pre == Walk(pathData, k - 1)
        before == pre.path.anchorPoints
        after == Walk(pathData, k).path.anchorPoints
        n == Len(before)
        origin == IF cmd.type = "c" THEN pre.currentPoint ELSE Pt(0, 0)
        cp1 == add(origin, XY(cmd.x1, cmd.y1))
        cp2 == add(origin, XY(cmd.x2, cmd.y2))
        endPoint == add(origin, XY(cmd.x, cmd.y))
    IN  /\ Len(after) = n + 1
        /\ after[n + 1].position = endPoint
        /\ after[n + 1].handleIn =
               [position |-> subtract(cp2, endPoint), visible |-> TRUE]
        /\ after[n + 1].handleOut = Null
        /\ \A j \in 1..(n - 1) : after[j] = before[j]
        /\ n >= 1 =>
               after[n] =
                   [before[n] EXCEPT !.handleOut =
                       [position |-> subtract(cp1, before[n].position),
                        visible |-> TRUE]]

\* C16: in every import, each cubic command (C or c) appends exactly one
\* anchor, at its end point, with a visible in-handle of second control
\* point minus end point, and gives the anchor that was last a visible
\* out-handle of first control point minus that anchor's position; each
\* close command adds no anchor and sets the closed flag; and
\* "M 0 0 C 10 0, 10 10, 0 10 Z" gives a closed path of exactly two anchors,
\* the first with a visible out-handle, the second with a visible in-handle
C16_CubicImport ==
    last.op = "importFromSVG" =>
        LET commands == parseSVGPath(last.pathData)
        IN  /\ Shape(last.result) =
                   Shape(Walk(last.pathData, Len(commands)).path)
            /\ \A k \in 1..Len(commands) :
                   /\ commands[k].type \in {"C", "c"} =>
                          CubicStep(last.pathData, k)
                   /\ commands[k].type \in {"Z", "z"} =>
                          /\ Walk(last.pathData, k).path.anchorPoints =
                                 Walk(last.pathData, k - 1).path.anchorPoints
                          /\ Walk(last.pathData, k).path.closed
            /\ last.pathData = TextCurve =>
                   /\ Len(last.result.anchorPoints) = 2
                   /\ Visible(last.result.anchorPoints[1].handleOut)
                   /\ last.result.anchorPoints[1].handleOut.position
                          = Pt(10, 0)
                   /\ Visible(last.result.anchorPoints[2].handleIn)
                   /\ last.result.anchorPoints[2].handleIn.position
                          = Pt(10, 0)
                   /\ last.result.closed

\* a text with an absolute and a relative cubic command and a close command
\* has been imported as a closed path of three anchors
C16_Witness ==
    /\ last.op = "importFromSVG"
    /\ last.pathData = TextRelativeCurves
    /\ Len(last.result.anchorPoints) = 3
    /\ Visible(last.result.anchorPoints[2].handleIn)
    /\ Visible(last.result.anchorPoints[2].handleOut)
    /\ last.result.closed


\* the path importFromSVG builds from a text, whatever ids it mints
Imported(pathData) == Shape(importFromSVG(0, pathData, <<>>).path)

\* C17: a command letter followed by k argument groups is applied as k
\* commands of that type and mode: the import of a text with repeated
\* groups after L, l, H, v, C or s gives the anchors, handles and closed
\* flag of the same text with the letter written before every group
C17_RepeatedGroupsKeepTheCommand ==
    last.op = "importFromSVG" =>
        \A pair \in Shorthands :
            last.pathData = pair[1] => Shape(last.result) = Imported(pair[2])

\* C18: an import that gives no anchor at all reports null, not a path
\* without anchors
C18_NoAnchorsNoPath ==
    (last.op = "importFromSVG" /\ last.result # Null) =>
        Len(last.result.anchorPoints) > 0

C20_UnsupportedCommandsSkipped ==
    last.op = "importFromSVG" =>
        \A pair \in Unsupported :
            last.pathData = pair[1] =>
                /\ last.result # Null
                /\ Shape(last.result) = Imported(pair[2])

\* a text with a smooth curve between a quadratic and an arc command has
\* been imported as a closed path of three anchors
C20_Witness ==
    /\ last.op = "importFromSVG"
    /\ last.pathData = TextWithArcs
    /\ Len(last.result.anchorPoints) = 3
    /\ last.result.anchorPoints[3].position = Pt(2, 2)
    /\ last.result.closed


\* command k of the text is a smooth-curve command whose first control
\* point is what C21 says, read off the out-handle it gives the anchor that
\* was last: after a cubic command the negation of that anchor's in-handle,
\* after any other command the zero offset
SmoothStep(pathData, k) ==
    LET commands == parseSVGPath(pathData)
        before == Walk(pathData, k - 1).path.anchorPoints
        after == Walk(pathData, k).path.anchorPoints
        n == Len(before)
        afterCubic == k > 1 /\ commands[k - 1].type \in {"C", "c", "S", "s"}
    IN  n >= 1 =>
            /\ Visible(after[n].handleOut)
            /\ after[n].handleOut.position =
                   IF afterCubic THEN negate(before[n].handleIn.position)
                   ELSE Pt(0, 0)

\* C21: in every import, the first control point of a smooth-curve command
\* (S or s) is the reflection of the second control point of the command
\* before it through the current anchor when that command was a cubic
\* curve (C, c, S or s), and the current point itself, the anchor getting
\* a zero-length out-handle, when that command was anything else
C21_SmoothControlPoint ==
    last.op = "importFromSVG" =>
        \A k \in 1..Len(parseSVGPath(last.pathData)) :
            parseSVGPath(last.pathData)[k].type \in {"S", "s"} =>
                SmoothStep(last.pathData, k)

\* C21 for the smooth-curve commands that follow a cubic curve, a line or
\* the first move-to
C21_SmoothAfterCurveOrLine ==
    last.op = "importFromSVG" =>
        \A k \in 1..Len(parseSVGPath(last.pathData)) :
            (/\ parseSVGPath(last.pathData)[k].type \in {"S", "s"}
             /\ (k > 1 =>
                    /\ parseSVGPath(last.pathData)[k - 1].type \in
                           {"C", "c", "S", "s", "L", "l", "H", "h", "V", "v",
                            "M", "m"}
                    /\ last.pathData # TextSmoothAfterMove)) =>
                SmoothStep(last.pathData, k)

----------------------------------------------------------------------------
(* Export followed by import (SpecRoundTrip) *)

MaxRoundTrips == 2

\* a coordinate below 1e-6, which `${x}` writes with an exponent
Tiny == [n |-> 1, d |-> 10000000]

\* anchors of the paths that are exported: position, in-handle, out-handle
RoundTripAnchors ==
    { [position |-> Pt(0, 0), handleIn |-> Null, handleOut |-> Null],
      [position |-> Pt(10, 0), handleIn |-> Handle(Pt(-3, -4)),
       handleOut |-> Handle(Pt(3, 4))],
      [position |-> Pt(10, 10), handleIn |-> Handle(XY(I(-2), Norm(1, 2))),
       handleOut |-> Null],
      [position |-> Pt(-5, 20), handleIn |-> Null,
       handleOut |-> Hidden(Pt(1, 1))],
      [position |-> XY(Tiny, I(5)), handleIn |-> Null, handleOut |-> Null] }

\* the store after createPath(), 2 or 3 calls of addAnchorPoint, handle
\* updates and possibly closePath
InitRoundTrip ==
    /\ \E n \in 2..3, closed \in BOOLEAN :
         \E f \in [1..n -> RoundTripAnchors] :
             paths = <<[NewPath(MintedId(0)) EXCEPT
                          !.closed = closed,
                          !.anchorPoints =
                              [k \in 1..n |->
                                  [NewAnchor(MintedId(k), f[k].position,
                                             Null, Null)
                                     EXCEPT !.handleIn = f[k].handleIn,
                                            !.handleOut = f[k].handleOut]]]>>
    /\ idCounter = Len(paths[1].anchorPoints) + 1
    /\ minted = [k \in 1..idCounter |-> MintedId(k - 1)]
    /\ selectedPoints = {}
    /\ hoverPreviewPoint = Null
    /\ hoverPreviewPath = Null
    /\ NoDrag
    /\ isShiftPressed = FALSE
    /\ isAltPressed = FALSE
    /\ dragOrigin = Null
    /\ PenIdle
    /\ last = [op |-> "init"]

\* importFromSVG(toSVGPath(path)) for a path of the store
RoundTrip ==
    /\ Len(paths) <= MaxRoundTrips
    /\ \E p \in 1..Len(paths) :
       \E pathData \in {toSVGPath(paths[p])} :
       \E imported \in {importFromSVG(idCounter, pathData, <<>>)} :
           /\ paths' = Append(paths, imported.path)
           /\ idCounter' = imported.idCounter
           /\ minted' = minted \o [k \in 1..(imported.idCounter - idCounter)
                                       |-> MintedId(idCounter + k - 1)]
           /\ UNCHANGED penVars
           /\ last' = [op |-> "roundTrip", path |-> paths[p],
                       pathData |-> pathData, result |-> imported.path]
    /\ UNCHANGED editVars

NextRoundTrip == RoundTrip

SpecRoundTrip == InitRoundTrip /\ [][NextRoundTrip]_vars

----------------------------------------------------------------------------
(* Claims about the round trip (SpecRoundTrip) *)

\* a path and its re-import have the same closed flag and, segment by
\* segment, the same type, end points and absolute control points
SameCurve(path, result) ==
    /\ result # Null
    /\ result.closed = path.closed
    /\ Len(getSegments(result)) = Len(getSegments(path))
    /\ \A k \in 1..Len(getSegments(path)) :
           Geometry(getSegments(result)[k]) = Geometry(getSegments(path)[k])

\* C22: for every path with at least 2 anchors, open or closed,
\* importFromSVG(toSVGPath(p)) returns a path with the same closed flag
\* whose derived segments are as many as those of p and have, segment by
\* segment, the same type, end points and absolute control points
C22_RoundTrip ==
    (last.op = "roundTrip" /\ Len(last.path.anchorPoints) >= 2) =>
        SameCurve(last.path, last.result)

\* a coordinate that `${x}` writes in decimal notation
DecimalNumber(a) == IsNum(a) /\ a # Tiny

\* every coordinate toSVGPath writes for the path is in decimal notation
Decimal(path) ==
    \A k \in 1..Len(getSegments(path)) :
        LET segment == getSegments(path)[k]
            points == {segment.startPoint.position,
                       segment.endPoint.position}
                      \cup IF segment.type = CubicBezier
                           THEN {segment.controlPoint1,
                                 segment.controlPoint2}
                           ELSE {}
        IN  \A point \in points :
                DecimalNumber(point.x) /\ DecimalNumber(point.y)

\* C22 for the open paths whose coordinates are written in decimal notation
C22_OpenDecimalRoundTrip ==
    (/\ last.op = "roundTrip"
     /\ Len(last.path.anchorPoints) >= 2
     /\ ~last.path.closed
     /\ Decimal(last.path)) =>
        SameCurve(last.path, last.result)

\* C22 for the closed paths
C22_ClosedRoundTrip ==
    (/\ last.op = "roundTrip"
     /\ Len(last.path.anchorPoints) >= 2
     /\ last.path.closed
     /\ Decimal(last.path)) =>
        SameCurve(last.path, last.result)

\* C22 for the open paths with a coordinate written with an exponent
C22_ExponentRoundTrip ==
    (/\ last.op = "roundTrip"
     /\ Len(last.path.anchorPoints) >= 2
     /\ ~last.path.closed
     /\ ~Decimal(last.path)) =>
        SameCurve(last.path, last.result)

----------------------------------------------------------------------------
(* Claims about the handles of the anchors in the store *)

\* C23: every anchor of the store whose mirrorMode is Mirrored and whose
\* two handles are both visible has an in-handle that is the exact negation
\* of its out-handle
C23_MirroredHandlesSynchronized ==
    \A p \in 1..Len(paths) :
        \A k \in 1..Len(paths[p].anchorPoints) :
            LET anchorPoint == paths[p].anchorPoints[k]
            IN  (/\ anchorPoint.mirrorMode = Mirrored
                 /\ Visible(anchorPoint.handleIn)
                 /\ Visible(anchorPoint.handleOut)) =>
                    anchorPoint.handleIn.position =
                        negate(anchorPoint.handleOut.position)

\* C24: after updateHandle(anchor, which, P), in any mirror mode, the stored
\* offset of that handle is P minus the anchor position, the handle is
\* visible, and getAbsoluteHandlePosition(anchor, which) returns P
C24_HandlesStoredRelative ==
    last.op = "updateHandle" =>
        /\ Visible(UpdatedHandle(LastAnchor))
        /\ UpdatedHandle(LastAnchor).position =
               subtract(last.newHandlePosition, last.before.position)
        /\ LastAnchor.position = last.before.position
        /\ getAbsoluteHandlePosition(LastAnchor, last.isOutHandle) =
               last.newHandlePosition

\* the hidden handle of an AngleLocked anchor away from the origin has been
\* set to a position that is neither the anchor nor the handle's old place
C24_Witness ==
    /\ last.op = "updateHandle"
    /\ last.before.mirrorMode = AngleLocked
    /\ last.before.position # Pt(0, 0)
    /\ UpdatedHandle(last.before) # Null
    /\ ~UpdatedHandle(last.before).visible
    /\ last.newHandlePosition # last.before.position
    /\ UpdatedHandle(LastAnchor).position
           # UpdatedHandle(last.before).position
    /\ getAbsoluteHandlePosition(LastAnchor, last.isOutHandle) =
           last.newHandlePosition

\* the handle `after` is what the mirror derivation of `mode` makes of the
\* handle `before` from a visible source handle: in Mirrored mode the
\* visible negation of the source; in AngleLocked mode a visible handle
\* keeps its length and points against the source (it is unchanged when the
\* source has zero length), an absent or hidden one becomes the negation
Derived(mode, source, before, after) ==
    IF mode = Mirrored
    THEN Visible(after) /\ after.position = negate(source.position)
    ELSE IF ~Visible(before) THEN after = Handle(negate(source.position))
    ELSE IF source.position = Pt(0, 0) THEN after = before
    ELSE /\ Visible(after)
         /\ SquaredLength(after.position) = SquaredLength(before.position)
         /\ Cross(source.position, after.position) = I(0)
         /\ RLeq(Dot(source.position, after.position), I(0))

\* C25: setMirrorMode to Mirrored or AngleLocked sets the mode and
\* re-applies the mirror derivation at once: from the out-handle when it is
\* visible (the out-handle unchanged, the in-handle re-derived), from the
\* in-handle only when the out-handle is not visible, and not at all when
\* neither is visible; setMirrorMode to Independent changes only the mode
C25_SetMirrorModePrefersOut ==
    last.op = "setMirrorMode" =>
        /\ LastAnchor.mirrorMode = last.mode
        /\ LastAnchor.position = last.before.position
        /\ IF last.mode = Independent
           THEN /\ LastAnchor.handleIn = last.before.handleIn
                /\ LastAnchor.handleOut = last.before.handleOut
           ELSE IF Visible(last.before.handleOut)
           THEN /\ LastAnchor.handleOut = last.before.handleOut
                /\ Derived(last.mode, last.before.handleOut,
                           last.before.handleIn, LastAnchor.handleIn)
           ELSE IF Visible(last.before.handleIn)
           THEN /\ LastAnchor.handleIn = last.before.handleIn
                /\ Derived(last.mode, last.before.handleIn,
                           last.before.handleOut, LastAnchor.handleOut)
           ELSE /\ LastAnchor.handleIn = last.before.handleIn
                /\ LastAnchor.handleOut = last.before.handleOut

\* an anchor with two visible handles that were not each other's negation
\* has been switched to Mirrored: the out-handle stayed, the in-handle moved
C25_Witness ==
    /\ last.op = "setMirrorMode"
    /\ last.mode = Mirrored
    /\ Visible(last.before.handleOut)
    /\ Visible(last.before.handleIn)
    /\ last.before.handleIn.position
           # negate(last.before.handleOut.position)
    /\ LastAnchor.handleOut = last.before.handleOut
    /\ LastAnchor.handleIn # last.before.handleIn

----------------------------------------------------------------------------
(* Claims about segment derivation (SpecGeom) *)

----------------------------------------------------------------------------
(* The consumers of a handle applied to paths with missing, hidden and
   visible handles (SpecHidden).  The drawn path is A -> B -> C with
   A = (0, 0), B = (90, 0), C = (190, 0); the out-handle of A is (30, 40) and
   the in-handle of B is (-30, 40), each visible, hidden or missing; the
   in-handle of A and the out-handle of B are hidden or missing.  Each
   behaviour applies one consumer to the drawn path; a pointer move may be
   followed by a double-click. *)

HiddenModes == HandleMirrorMode

HiddenPointers == {Pt(45, 30), Pt(140, 0)}

NearPositions == {Pt(30, 40), Pt(60, 40), Pt(-30, -40), Pt(120, -40)}

Representations(pos) == {Null, Hidden(pos), Handle(pos)}

HiddenPath(inA, outA, inB, outB, mode, closed) ==
    LET drawn ==
            addAnchorPoint(
                addAnchorPoint(
                    addAnchorPoint(NewPath(MintedId(0)), MintedId(1),
                                   Pt(0, 0), Null, Null),
                    MintedId(2), Pt(90, 0), Null, Null),
                MintedId(3), Pt(190, 0), Null, Null)
    IN  [drawn EXCEPT
            !.anchorPoints[1].handleIn = inA,
            !.anchorPoints[1].handleOut = outA,
            !.anchorPoints[1].mirrorMode = mode,
            !.anchorPoints[2].handleIn = inB,
            !.anchorPoints[2].handleOut = outB,
            !.anchorPoints[2].mirrorMode = mode,
            !.closed = closed]

\* the store after createPath, three addAnchorPoint calls, handle updates,
\* a caller hiding handles, and possibly closePath
InitHidden ==
    /\ \E inA \in {Null, Hidden(Pt(-30, -40))},
          outA \in Representations(Pt(30, 40)),
          inB \in Representations(Pt(-30, 40)),
          outB \in {Null, Hidden(Pt(30, -40))},
          mode \in HiddenModes, closed \in BOOLEAN :
           paths = <<HiddenPath(inA, outA, inB, outB, mode, closed)>>
    /\ idCounter = 4
    /\ minted = [k \in 1..4 |-> MintedId(k - 1)]
    /\ selectedPoints = {}
    /\ hoverPreviewPoint = Null
    /\ hoverPreviewPath = Null
    /\ NoDrag
    /\ isShiftPressed = FALSE
    /\ isAltPressed = FALSE
    /\ dragOrigin = Null
    /\ PenIdle
    /\ last = [op |-> "init"]

\* no consumer has been applied yet
Fresh == last.op = "init"

\* every segment is a line or a curve with both handles visible: the
\* segments whose 50 samples are fractions with small denominators
HoverSafe ==
    \A p \in 1..Len(paths) :
        \A k \in 1..Len(getSegments(paths[p])) :
            LET segment == getSegments(paths[p])[k]
            IN  \/ segment.type = Line
                \/ /\ Visible(segment.startPoint.handleOut)
                   /\ Visible(segment.endPoint.handleIn)

HiddenGetSegments == Fresh /\ GetSegments

HiddenToSVGPath == Fresh /\ ToSVGPath

HiddenUpdateHandle == Fresh /\ UpdateHandle

HiddenSetMirrorMode == Fresh /\ SetMirrorMode

\* HandleManager.getAbsoluteHandlePosition(anchorPoint, isOutHandle)
GetAbsoluteHandlePosition ==
    /\ Fresh
    /\ \E r \in AnchorRefs, isOutHandle \in BOOLEAN :
           last' = [op |-> "getAbsoluteHandlePosition", path |-> r[1],
                    index |-> r[2], isOutHandle |-> isOutHandle,
                    result |-> getAbsoluteHandlePosition(AnchorAt(r[1], r[2]),
                                                         isOutHandle)]
    /\ UNCHANGED <<storeVars, editVars, penVars>>

\* HandleManager.isNearHandle(anchorPoint, position), threshold 10
IsNearHandle ==
    /\ Fresh
    /\ \E r \in AnchorRefs, position \in NearPositions :
           last' = [op |-> "isNearHandle", path |-> r[1], index |-> r[2],
                    position |-> position,
                    result |-> isNearHandle(AnchorAt(r[1], r[2]), position,
                                            I(10))]
    /\ UNCHANGED <<storeVars, editVars, penVars>>

\* onMouseMove(position) over the drawn path
HiddenMouseMove ==
    /\ Fresh
    /\ HoverSafe
    /\ \E position \in HiddenPointers :
           /\ onMouseMove(position)
           /\ UNCHANGED penVars
           /\ last' = [op |-> "onMouseMove", position |-> position]
    /\ UNCHANGED <<keyVars, dragOrigin>>

NextHidden ==
    \/ HiddenGetSegments
    \/ HiddenToSVGPath
    \/ HiddenUpdateHandle
    \/ HiddenSetMirrorMode
    \/ GetAbsoluteHandlePosition
    \/ IsNearHandle
    \/ HiddenMouseMove
    \/ OnDoubleClick

SpecHidden == InitHidden /\ [][NextHidden]_vars

----------------------------------------------------------------------------
(* Claims about missing and hidden handles (SpecHidden) *)

\* the representation of "no handle" made uniform: a hidden handle becomes
\* a missing one
NoHandleAsNull(handle) == IF Visible(handle) THEN handle ELSE Null

AnchorTwin(anchorPoint) ==
    [anchorPoint EXCEPT !.handleIn = NoHandleAsNull(@),
                        !.handleOut = NoHandleAsNull(@)]

PathTwin(path) ==
    [path EXCEPT !.anchorPoints = [k \in 1..Len(@) |-> AnchorTwin(@[k])]]

Geometries(segments) == [k \in 1..Len(segments) |-> Geometry(segments[k])]

\* the insertion of onDoubleClick into segment k of a path at parameter t
\* gives, on the path and on its twin, paths with the same segments
SameInsertion(path, k, t) ==
    LET twin == PathTwin(path)
        point == SamplePoint(getSegments(path)[k], t)
    IN  Geometries(getSegments(
            InsertOnSegment(path, MintedId(idCounter),
                            getSegments(path)[k], k - 1, t, point)))
        = Geometries(getSegments(
            InsertOnSegment(twin, MintedId(idCounter),
                            getSegments(twin)[k], k - 1, t, point)))

\* C27: a missing handle and a hidden one are treated alike by every
\* consumer: what getSegments, toSVGPath, getAbsoluteHandlePosition and
\* isNearHandle return, the anchor updateHandle and setMirrorMode leave (its
\* sibling handle included), and the segments of the path after a
\* double-click insertion are what they are for the same path with every
\* hidden handle replaced by a missing one
C27_NullAndHiddenAlike ==
    /\ last.op = "getSegments" =>
           Geometries(last.result)
               = Geometries(getSegments(PathTwin(paths[last.path])))
    /\ last.op = "toSVGPath" =>
           last.result = toSVGPath(PathTwin(paths[last.path]))
    /\ last.op = "getAbsoluteHandlePosition" =>
           last.result = getAbsoluteHandlePosition(AnchorTwin(LastAnchor),
                                                   last.isOutHandle)
    /\ last.op = "isNearHandle" =>
           last.result = isNearHandle(AnchorTwin(LastAnchor), last.position,
                                      I(10))
    /\ last.op = "updateHandle" =>
           AnchorTwin(LastAnchor)
               = AnchorTwin(updateHandle(AnchorTwin(last.before),
                                         last.isOutHandle,
                                         last.newHandlePosition))
    /\ last.op = "setMirrorMode" =>
           AnchorTwin(LastAnchor)
               = AnchorTwin(setMirrorMode(AnchorTwin(last.before), last.mode))
    /\ (last.op = "onDoubleClick" /\ last.result) =>
           Geometries(getSegments(paths[last.path]))
               = Geometries(getSegments(
                     InsertOnSegment(PathTwin(last.before),
                         paths[last.path].anchorPoints[last.i + 2].id,
                         getSegments(PathTwin(last.before))[last.i + 1],
                         last.i, last.t, last.point)))
    /\ Fresh =>
           \A k \in 1..Len(getSegments(paths[1])), t \in SplitParameters :
               SameInsertion(paths[1], k, t)

\* a double-click has inserted an anchor into a segment whose start anchor
\* has a hidden out-handle
C27_Witness ==
    /\ last.op = "onDoubleClick"
    /\ last.result
    /\ last.before.anchorPoints[last.i + 1].handleOut # Null
    /\ ~last.before.anchorPoints[last.i + 1].handleOut.visible
    /\ PathTwin(last.before) # last.before
    /\ Len(paths[last.path].anchorPoints) = 4

----------------------------------------------------------------------------
(* Claims about the insertion into a straight segment *)

\* the segment the last double-click inserted into, and the anchor it
\* inserted
InsertionSegment == getSegments(last.before)[last.i + 1]
InsertedAnchor == paths[last.path].anchorPoints[last.i + 2]

\* the anchor of the path, as it is now, that has the id of anchorPoint
Now(anchorPoint) ==
    paths[last.path].anchorPoints[
        FindIndex(paths[last.path].anchorPoints, anchorPoint.id) + 1]

\* the last double-click has inserted an anchor into a straight segment
LineInsertion ==
    /\ last.op = "onDoubleClick"
    /\ last.result
    /\ InsertionSegment.type = Line

\* the inserted anchor has the default handles: out along the direction
\* from start to end with length 50/3, in its negation, mode Mirrored
DefaultHandles ==
    LET direction == subtract(InsertionSegment.endPoint.position,
                              InsertionSegment.startPoint.position)
    IN  /\ InsertedAnchor.mirrorMode = Mirrored
        /\ Visible(InsertedAnchor.handleIn)
        /\ Visible(InsertedAnchor.handleOut)
        /\ InsertedAnchor.handleIn.position
               = negate(InsertedAnchor.handleOut.position)
        /\ RMul(I(9), SquaredLength(InsertedAnchor.handleOut.position))
               = I(handleLength * handleLength)
        /\ Cross(direction, InsertedAnchor.handleOut.position) = I(0)
        /\ RLess(I(0), Dot(direction, InsertedAnchor.handleOut.position))

\* the two end points of the segment keep their handles
EndPointsKeepHandles ==
    /\ Now(InsertionSegment.startPoint) = InsertionSegment.startPoint
    /\ Now(InsertionSegment.endPoint) = InsertionSegment.endPoint

\* C28: when a double-click inserts into a straight segment at parameter
\* t, the new anchor is at the linear interpolation of the end points of
\* the segment at t, it has default handles (an in-handle and an
\* out-handle of length 50/3 against and along the direction from start to
\* end) and mode Mirrored, and the two end points keep their handles
C28_LineInsertion ==
    LineInsertion =>
        /\ InsertedAnchor.position
               = lerp(InsertionSegment.startPoint.position,
                      InsertionSegment.endPoint.position, last.t)
        /\ DefaultHandles
        /\ EndPointsKeepHandles

\* C28 without the place of the new anchor
C28_LineInsertionHandles ==
    LineInsertion => DefaultHandles /\ EndPointsKeepHandles

----------------------------------------------------------------------------
(* createDefaultHandles applied to one anchor (SpecDefault) *)

\* the neighbours offered, as offsets from the anchor: every distance
\* between the anchor and a neighbour and between two neighbours is whole
PrevOffsets == {Pt(-3, -4), Pt(3, -4)}
NextOffsets == {Pt(3, 4), Pt(-3, 4)}

\* the store after createPath, one addAnchorPoint, handle updates in some
\* mode and a caller hiding handles
InitDefault ==
    /\ \E position \in AnchorPositions, mode \in HandleMirrorMode,
          handleIn \in Representations(Pt(-6, 8)),
          handleOut \in Representations(Pt(0, -5)) :
           paths = <<[addAnchorPoint(NewPath(MintedId(0)), MintedId(1),
                                     position, Null, Null)
                        EXCEPT !.anchorPoints[1].handleIn = handleIn,
                               !.anchorPoints[1].handleOut = handleOut,
                               !.anchorPoints[1].mirrorMode = mode]>>
    /\ idCounter = 2
    /\ minted = <<MintedId(0), MintedId(1)>>
    /\ selectedPoints = {}
    /\ hoverPreviewPoint = Null
    /\ hoverPreviewPath = Null
    /\ NoDrag
    /\ isShiftPressed = FALSE
    /\ isAltPressed = FALSE
    /\ dragOrigin = Null
    /\ PenIdle
    /\ last = [op |-> "init"]

\* HandleManager.createDefaultHandles(anchorPoint, prevPoint, nextPoint)
CreateDefaultHandles ==
    \E r \in AnchorRefs :
    \E prevPoint \in {Null} \cup {add(AnchorAt(r[1], r[2]).position, o) :
                                      o \in PrevOffsets},
       nextPoint \in {Null} \cup {add(AnchorAt(r[1], r[2]).position, o) :
                                      o \in NextOffsets} :
        /\ paths' = [paths EXCEPT ![r[1]].anchorPoints[r[2]] =
                        createDefaultHandles(@, prevPoint, nextPoint)]
        /\ UNCHANGED penVars
        /\ last' = [op |-> "createDefaultHandles", path |-> r[1],
                    index |-> r[2], prevPoint |-> prevPoint,
                    nextPoint |-> nextPoint, before |-> AnchorAt(r[1], r[2])]
        /\ UNCHANGED <<idCounter, minted, editVars>>

NextDefault == CreateDefaultHandles

SpecDefault == InitDefault /\ [][NextDefault]_vars

----------------------------------------------------------------------------
(* Claims about createDefaultHandles (SpecDefault) *)

\* a visible handle of length 50/3 that points from the anchor along the
\* direction
DefaultHandle(handle, direction) ==
    /\ Visible(handle)
    /\ RMul(I(9), SquaredLength(handle.position))
           = I(handleLength * handleLength)
    /\ Cross(direction, handle.position) = I(0)
    /\ RLess(I(0), Dot(direction, handle.position))

\* C29: createDefaultHandles with neither neighbour leaves the anchor as it
\* was, handles and mode; with only a previous neighbour it sets the
\* in-handle and leaves the out-handle as it was, with only a next
\* neighbour it sets the out-handle and leaves the in-handle as it was;
\* with at least one neighbour the mode becomes Mirrored
C29_DefaultHandlesFrame ==
    last.op = "createDefaultHandles" =>
        IF last.prevPoint = Null /\ last.nextPoint = Null
        THEN LastAnchor = last.before
        ELSE /\ LastAnchor.mirrorMode = Mirrored
             /\ LastAnchor.position = last.before.position
             /\ (last.nextPoint = Null =>
                    /\ LastAnchor.handleOut = last.before.handleOut
                    /\ DefaultHandle(LastAnchor.handleIn,
                                     subtract(last.prevPoint,
                                              last.before.position)))
             /\ (last.prevPoint = Null =>
                    /\ LastAnchor.handleIn = last.before.handleIn
                    /\ DefaultHandle(LastAnchor.handleOut,
                                     subtract(last.nextPoint,
                                              last.before.position)))

\* an Independent anchor with a visible out-handle has been given a default
\* in-handle from its previous neighbour alone: the out-handle stayed, not
\* the negation of the new in-handle, and the mode is Mirrored
C29_Witness ==
    /\ last.op = "createDefaultHandles"
    /\ last.prevPoint # Null
    /\ last.nextPoint = Null
    /\ last.before.mirrorMode = Independent
    /\ Visible(last.before.handleOut)
    /\ LastAnchor.handleOut = last.before.handleOut
    /\ LastAnchor.handleIn # last.before.handleIn
    /\ LastAnchor.handleIn.position # negate(LastAnchor.handleOut.position)
    /\ LastAnchor.mirrorMode = Mirrored

\* createDefaultHandles without neighbours has been applied to an anchor
\* that is not Mirrored
C29_NoNeighbours ==
    /\ last.op = "createDefaultHandles"
    /\ last.prevPoint = Null
    /\ last.nextPoint = Null
    /\ last.before.mirrorMode # Mirrored

----------------------------------------------------------------------------
(* Referential misses (Spec) *)

\* the ids of the anchors of path p
AnchorIdsOf(p) ==
    {paths[p].anchorPoints[k].id : k \in 1..Len(paths[p].anchorPoints)}

\* the step is a moveAnchorPoint or removeAnchorPoint call with an anchor id
\* that is not in the path it is given
AnchorMiss ==
    /\ last'.op \in {"moveAnchorPoint", "removeAnchorPoint"}
    /\ last'.pointId \notin AnchorIdsOf(last'.path)

\* the step is a removePath or getPath call with an id that no path of the
\* store has
PathMiss ==
    /\ last'.op \in {"removePath", "getPath"}
    /\ last'.id \notin PathIds

\* C30: moveAnchorPoint and removeAnchorPoint with an anchor id that is not in
\* the path return false and leave the path's anchors (and the whole store)
\* as they were; removePath with an id no path has returns false and leaves
\* the store as it was; getPath with such an id returns no path. The ids
\* offered include those of anchors and paths removed before, so a call
\* repeated after a successful removal is among the cases.
C30_MissesChangeNothing ==
    [][/\ AnchorMiss =>
             /\ last'.result = FALSE
             /\ paths' = paths
             /\ idCounter' = idCounter
       /\ PathMiss =>
             /\ paths' = paths
             /\ idCounter' = idCounter
             /\ (last'.op = "removePath" => last'.result = FALSE)
             /\ (last'.op = "getPath" => last'.result = Undefined)]_vars

\* removeAnchorPoint has returned false for an id that was minted and that
\* nothing in the store has any more, on a path that still has anchors: a
\* removal repeated after the object was removed
C30_RepeatedRemoval ==
    /\ last.op = "removeAnchorPoint"
    /\ last.result = FALSE
    /\ last.pointId \in KnownIds \ StoreIds
    /\ last.path \in 1..Len(paths)
    /\ Len(paths[last.path].anchorPoints) > 0

----------------------------------------------------------------------------
(* The hover preview over two paths (SpecHover).  The store holds the path
   A -> B -> C of SpecEdit and a polyline that passes near it, in either
   order; the pointer moves over them while no drag is in progress, and the
   paths are closed and opened in between. *)

\* (0, 6) -> (150, 6) -> (150, -20): 3 above the closing line of the first
\* path at x = 75, and through B = (150, 0)
HoverPolyline == Polyline(4, Pt(0, 6), Pt(150, 6), Pt(150, -20))

InitHover ==
    /\ \E endX \in {170, 250}, closed \in BOOLEAN, swapped \in BOOLEAN :
           paths = IF swapped
                   THEN <<HoverPolyline, EditPath(endX, Mirrored, closed)>>
                   ELSE <<EditPath(endX, Mirrored, closed), HoverPolyline>>
    /\ idCounter = 8
    /\ minted = [k \in 1..8 |-> MintedId(k - 1)]
    /\ selectedPoints = {}
    /\ hoverPreviewPoint = Null
    /\ hoverPreviewPath = Null
    /\ NoDrag
    /\ isShiftPressed = FALSE
    /\ isAltPressed = FALSE
    /\ dragOrigin = Null
    /\ PenIdle
    /\ last = [op |-> "init"]

NextHover == OnMouseMove \/ ClosePath \/ OpenPath

SpecHover == InitHover /\ [][NextHover]_vars

\* the samples t = k/50, k = 0..50, of every segment of path p, each with the
\* square of its distance to the position
SamplesOfPath(p, position) ==
    LET segments == getSegments(paths[p])
    IN  UNION {{Samples(segments[j], position)[k] : k \in 0..samples} :
               j \in 1..Len(segments)}

\* the sample lies within hoverDistance of the position
NearSample(sample) ==
    /\ IsNum(sample.distanceSquared)
    /\ RLeq(sample.distanceSquared, I(hoverDistance * hoverDistance))

\* C31: after a pointer-move processed while no drag is in progress, the
\* hover preview is set exactly when some sample t = k/50 of some segment of
\* some path of the store lies within hoverDistance of the pointer; it is
\* then a sample of minimum distance to the pointer among all samples of all
\* segments of all paths, and the recorded path is one the sample lies on;
\* otherwise the hover preview (point and path) is cleared.
C31_HoverIsClosestSample ==
    (last.op = "onMouseMove" /\ ~isDragging) =>
        LET all == [p \in 1..Len(paths) |->
                       SamplesOfPath(p, last.position)]
        IN  IF \E p \in 1..Len(paths) : \E s \in all[p] : NearSample(s)
            THEN /\ hoverPreviewPoint # Null
                 /\ \E p \in 1..Len(paths) :
                        /\ paths[p].id = hoverPreviewPath
                        /\ \E s \in all[p] :
                               /\ s.position = hoverPreviewPoint
                               /\ NearSample(s)
                               /\ \A q \in 1..Len(paths) :
                                      \A r \in all[q] :
                                          IsNum(r.distanceSquared) =>
                                              RLeq(s.distanceSquared,
                                                   r.distanceSquared)
            ELSE /\ hoverPreviewPoint = Null
                 /\ hoverPreviewPath = Null

\* a pointer-move has set the preview on the second path of the store while
\* the first path has a sample within hoverDistance too, farther away
C31_Witness ==
    /\ last.op = "onMouseMove"
    /\ ~isDragging
    /\ Len(paths) = 2
    /\ hoverPreviewPoint # Null
    /\ hoverPreviewPath = paths[2].id
    /\ \E s \in SamplesOfPath(1, last.position) : NearSample(s)

----------------------------------------------------------------------------
(* Hit-testing the handles of one anchor (SpecNear).  The anchor has each of
   its handles missing, hidden or visible, at offsets that put none, one or
   both of them within the threshold 10 of the positions of NearPositions;
   each behaviour applies isNearHandle or getAbsoluteHandlePosition once. *)

NearOffsets == {Pt(30, 40), Pt(36, 48), Pt(60, 60)}

NearHandles ==
    {Null} \cup {Hidden(pos) : pos \in NearOffsets}
           \cup {Handle(pos) : pos \in NearOffsets}

InitNear ==
    /\ \E position \in {Pt(0, 0), Pt(24, -8)},
          handleIn \in NearHandles, handleOut \in NearHandles :
           paths = <<[addAnchorPoint(NewPath(MintedId(0)), MintedId(1),
                                     position, Null, Null)
                         EXCEPT !.anchorPoints[1].handleIn = handleIn,
                                !.anchorPoints[1].handleOut = handleOut,
                                !.anchorPoints[1].mirrorMode = Independent]>>
    /\ idCounter = 2
    /\ minted = [k \in 1..2 |-> MintedId(k - 1)]
    /\ selectedPoints = {}
    /\ hoverPreviewPoint = Null
    /\ hoverPreviewPath = Null
    /\ NoDrag
    /\ isShiftPressed = FALSE
    /\ isAltPressed = FALSE
    /\ dragOrigin = Null
    /\ PenIdle
    /\ last = [op |-> "init"]

NextNear == IsNearHandle \/ GetAbsoluteHandlePosition

SpecNear == InitNear /\ [][NextNear]_vars

\* the handle is visible and within the threshold 10 of the position
HandleNear(point, isOut, position) ==
    LET handle == IF isOut THEN point.handleOut ELSE point.handleIn
    IN  /\ Visible(handle)
        /\ RLeq(SquaredDistance(position,
                                add(point.position, handle.position)),
                I(10 * 10))

\* C32: isNearHandle and getAbsoluteHandlePosition leave the anchor (and the
\* whole store) as it was; isNearHandle reports the out-handle whenever the
\* out-handle is visible and within the threshold, also when the in-handle
\* is within the threshold too, even nearer; it reports the in-handle only
\* when the out-handle is not hit and the in-handle is visible and within
\* the threshold; it returns null when neither visible handle is within the
\* threshold.
C32_OutHandleFirst ==
    [][/\ last'.op \in {"isNearHandle", "getAbsoluteHandlePosition"} =>
             paths' = paths
       /\ last'.op = "isNearHandle" =>
             LET point == AnchorAt(last'.path, last'.index)
                 outHit == HandleNear(point, TRUE, last'.position)
                 inHit == HandleNear(point, FALSE, last'.position)
             IN  /\ outHit => (last'.result # Null /\ last'.result.isOut)
                 /\ (~outHit /\ inHit) =>
                        (last'.result # Null /\ ~last'.result.isOut)
                 /\ (~outHit /\ ~inHit) => last'.result = Null]_vars

\* isNearHandle has reported the out-handle of an anchor whose in-handle is
\* visible, within the threshold and strictly nearer to the position
C32_Witness ==
    /\ last.op = "isNearHandle"
    /\ last.result # Null
    /\ last.result.isOut
    /\ LET point == AnchorAt(last.path, last.index)
       IN  /\ HandleNear(point, FALSE, last.position)
           /\ RLess(SquaredDistance(last.position,
                                    add(point.position,
                                        point.handleIn.position)),
                    last.result.distanceSquared)

----------------------------------------------------------------------------
(* The drawing machine (PenTool) under pointer and key events (SpecPen).
   Its states are those of PenToolState; its transitions follow the
   description of the drawing state machine: a pointer-down closes the path
   in progress or appends a straight point, a pointer-move past the drag
   threshold gives the point just placed handles derived from the drag
   vector, a pointer-up commits the point, Enter closes the path in progress
   and Escape ends drawing without closing.  Shift (angle snapping) and Alt
   are not among the keys drawn. *)

\* the drawing machine mints at most MaxPenIds ids
MaxPenIds == 5

closePathThreshold == 10

dragThreshold == 3

\* pointer-downs: on the first anchor, at distance 10 of it, just farther,
\* and far away
PenPointers == {Pt(0, 0), Pt(6, 8), Pt(7, 8), Pt(100, 0)}

\* pointer-moves: within the drag threshold of a pointer-down at (100, 0),
\* beyond it for the other pointer-downs
PenMovePointers == {Pt(100, 0)}

PenKeys == {"Enter", "Escape"}

\* canClosePath with two anchors being enough
canClosePathWithTwoAnchors(path) ==
    path # Null /\ Len(path.anchorPoints) > 1

\* the path in progress may be closed: it has more than two anchors
canClosePath(path) ==
    path # Null /\ Len(path.anchorPoints) > 2

\* getCurrentPath(): the path in progress, or Null
getCurrentPath ==
    IF currentPath = None THEN Null ELSE getPath(paths, currentPath)

\* the pointer is within the closing threshold of the first anchor of a path
\* in progress that may be closed
ClosesPath(position) ==
    /\ canClosePath(getCurrentPath)
    /\ WithinThreshold(
           SquaredDistance(position,
                           getCurrentPath.anchorPoints[1].position),
           I(closePathThreshold))

\* reset(): the machine returns to Idle with no path in progress
PenReset ==
    /\ penState' = "idle"
    /\ currentPath' = None
    /\ mouseDownPos' = Null

\* pointer-down while no pointer-down is pending
PenMouseDown ==
    \E position \in PenPointers :
        /\ mouseDownPos = Null
        /\ IF ClosesPath(position)
           THEN /\ paths' = [paths EXCEPT
                                ![PathIndex(paths, currentPath)].closed = TRUE]
                /\ PenReset
                /\ UNCHANGED <<idCounter, minted>>
           ELSE IF currentPath = None
           THEN /\ idCounter + 2 <= MaxPenIds
                /\ paths' = Append(paths,
                       addAnchorPoint(NewPath(MintedId(idCounter)),
                                      MintedId(idCounter + 1), position,
                                      Null, Null))
                /\ idCounter' = generateId(generateId(idCounter))
                /\ minted' = minted \o <<MintedId(idCounter),
                                          MintedId(idCounter + 1)>>
                /\ currentPath' = MintedId(idCounter)
                /\ penState' = "drawing"
                /\ mouseDownPos' = position
           ELSE /\ idCounter + 1 <= MaxPenIds
                /\ paths' = [paths EXCEPT ![PathIndex(paths, currentPath)] =
                                addAnchorPoint(@, MintedId(idCounter),
                                               position, Null, Null)]
                /\ idCounter' = generateId(idCounter)
                /\ minted' = Append(minted, MintedId(idCounter))
                /\ penState' = "drawing"
                /\ mouseDownPos' = position
                /\ UNCHANGED currentPath
        /\ last' = [op |-> "penMouseDown", position |-> position]
        /\ UNCHANGED editVars

\* pointer-move: while a pointer-down is pending and the pointer has moved
\* past the drag threshold, the point just placed gets an out-handle to the
\* pointer and, unless Alt is held, the opposite in-handle
PenMouseMove ==
    \E position \in PenMovePointers :
        /\ IF /\ mouseDownPos # Null
              /\ \/ penState = "dragging-handle"
                 \/ ~WithinThreshold(SquaredDistance(position, mouseDownPos),
                                     I(dragThreshold))
           THEN /\ paths' =
                       [paths EXCEPT
                           ![PathIndex(paths, currentPath)].anchorPoints =
                               [@ EXCEPT ![Len(@)] =
                                   updateHandle(
                                       [@ EXCEPT !.mirrorMode =
                                           IF isAltPressed THEN Independent
                                           ELSE Mirrored],
                                       TRUE, position)]]
                /\ penState' = "dragging-handle"
                /\ UNCHANGED <<currentPath, mouseDownPos>>
           ELSE UNCHANGED <<paths, penVars>>
        /\ last' = [op |-> "penMouseMove", position |-> position]
        /\ UNCHANGED <<idCounter, minted, editVars>>

\* pointer-up: the point is committed and the machine is Drawing again
PenMouseUp ==
    /\ IF mouseDownPos # Null
       THEN /\ penState' = "drawing"
            /\ mouseDownPos' = Null
            /\ UNCHANGED currentPath
       ELSE UNCHANGED penVars
    /\ last' = [op |-> "penMouseUp"]
    /\ UNCHANGED <<storeVars, editVars>>

\* key-down: Enter closes the path in progress, Escape ends drawing without
\* closing, Alt is remembered
PenKeyDown ==
    \E key \in PenKeys :
        /\ IF key = "Enter" /\ currentPath # None
           THEN /\ paths' = [paths EXCEPT
                                ![PathIndex(paths, currentPath)].closed = TRUE]
                /\ PenReset
                /\ UNCHANGED isAltPressed
           ELSE IF key = "Escape"
           THEN /\ PenReset
                /\ UNCHANGED <<paths, isAltPressed>>
           ELSE IF key = "Alt"
           THEN /\ isAltPressed' = TRUE
                /\ UNCHANGED <<paths, penVars>>
           ELSE UNCHANGED <<paths, penVars, isAltPressed>>
        /\ last' = [op |-> "penKeyDown", key |-> key]
        /\ UNCHANGED <<idCounter, minted, selectedPoints, hoverVars,
                       dragVars, isShiftPressed, dragOrigin>>

NextPen ==
    \/ PenMouseDown
    \/ PenMouseMove
    \/ PenMouseUp
    \/ PenKeyDown

SpecPen == Init /\ [][NextPen]_vars

----------------------------------------------------------------------------
(* Claims about the drawing machine (SpecPen) *)

\* the anchors of the whole store, path by path
AnchorsByPath(allPaths) ==
    [p \in 1..Len(allPaths) |-> allPaths[p].anchorPoints]

\* the pointer-down at the position meets the closing condition: a path is
\* in progress, it has at least 3 anchors and its first anchor is within
\* the closing threshold of the position
ClosingPointerDown(position) ==
    /\ currentPath # None
    /\ \E p \in 1..Len(paths) :
           /\ paths[p].id = currentPath
           /\ Len(paths[p].anchorPoints) >= 3
           /\ RLeq(SquaredDistance(position,
                                   paths[p].anchorPoints[1].position),
                   I(closePathThreshold * closePathThreshold))

C33_TooFewToClose ==
    /\ last.op = "penMouseDown"
    /\ last.position = Pt(0, 0)
    /\ penState = "drawing"
    /\ \E p \in 1..Len(paths) :
           /\ paths[p].id = currentPath
           /\ Len(paths[p].anchorPoints) = 3
           /\ paths[p].anchorPoints[1].position = Pt(0, 0)
           /\ paths[p].anchorPoints[3].position = Pt(0, 0)

----------------------------------------------------------------------------
(* Claims about the observers of the edit machine (SpecSelect, SpecDrag) *)

\* a path without the selected flags of its anchors
WithoutFlags(path) ==
    [path EXCEPT !.anchorPoints =
        [k \in 1..Len(@) |-> [@[k] EXCEPT !.selected = FALSE]]]

\* the calls of one observer among the calls of an event
CallsOf(calls, callback) ==
    SelectSeq(calls, LAMBDA call : call.callback = callback)

\* C34: an edit-machine input event that changes the selection invokes
\* onSelectionChange exactly once, with the selection the event leaves; an
\* event that modifies a path (its anchors, their positions, handles or
\* modes) invokes onPathModified exactly once for that path; an event that
\* changes neither the selection nor a path invokes neither observer.
C34_ObserversOncePerChange ==
    [][last'.op \in {"onMouseDown", "onMouseMove", "onMouseUp", "onKeyDown",
                     "onKeyUp"} =>
        LET before == getSelectedPoints(paths, selectedPoints)
            after == getSelectedPoints(paths', selectedPoints')
            selection == CallsOf(last'.calls, "onSelectionChange")
            modified == CallsOf(last'.calls, "onPathModified")
            changed == {p \in 1..Len(paths) :
                           WithoutFlags(paths'[p]) # WithoutFlags(paths[p])}
        IN  /\ after # before =>
                   /\ Len(selection) = 1
                   /\ selection[1].points = after
            /\ \A p \in changed :
                   Cardinality({k \in 1..Len(modified) :
                                   modified[k].path = paths[p].id}) = 1
            /\ (after = before /\ changed = {}) => last'.calls = <<>>]_vars

----------------------------------------------------------------------------
(* Import of any text (SpecAnyText): the texts of SpecImport, texts with
   missing or undecodable arguments, and texts with several move-to
   commands *)

\* "M 5"
TextMissingY ==
    <<"M", " ", "5">>

\* "M 0 0 L 7"
TextLineMissingY ==
    <<"M", " ", "0", " ", "0", " ", "L", " ", "7">>

\* "M 1 1 L . 3"
TextDotToken ==
    <<"M", " ", "1", " ", "1", " ", "L", " ", ".", " ", "3">>

\* "M 0 0 C 1 2 3"
TextShortCurve ==
    <<"M", " ", "0", " ", "0", " ", "C", " ", "1", " ", "2", " ", "3">>

\* "M 0 0 l 5"
TextRelativeMissingY ==
    <<"M", " ", "0", " ", "0", " ", "l", " ", "5">>

\* "M 0 0 L 5 5 M 9 9 L 1 1"
TextLaterMove ==
    <<"M", " ", "0", " ", "0", " ", "L", " ", "5", " ", "5", " ", "M", " ",
      "9", " ", "9", " ", "L", " ", "1", " ", "1">>

\* "L 3 4 M 1 1 L 2 2"
TextLineFirst ==
    <<"L", " ", "3", " ", "4", " ", "M", " ", "1", " ", "1", " ", "L", " ",
      "2", " ", "2">>

\* "M 1 1 M 2 2"
TextTwoMoves ==
    <<"M", " ", "1", " ", "1", " ", "M", " ", "2", " ", "2">>

\* "M 0 0 5 5 9 9"
TextImplicitLines ==
    <<"M", " ", "0", " ", "0", " ", "5", " ", "5", " ", "9", " ", "9">>

\* "Z M 3 3 h 2"
TextCloseThenMove ==
    <<"Z", " ", "M", " ", "3", " ", "3", " ", "h", " ", "2">>

\* a command letter followed by fewer numbers than the command takes, or by
\* a token that is no number
MalformedTexts ==
    {TextMissingY, TextLineMissingY, TextDotToken, TextShortCurve,
     TextRelativeMissingY}

MoveTexts ==
    {TextLaterMove, TextLineFirst, TextTwoMoves, TextImplicitLines,
     TextCloseThenMove}

AnyTexts == CodecTexts \cup MalformedTexts \cup MoveTexts

\* importFromSVG(pathData) on a store that holds fewer than MaxImports paths
ImportAnyText ==
    /\ Len(paths) < MaxImports
    /\ \E pathData \in AnyTexts :
       \E imported \in {importFromSVG(idCounter, pathData, <<>>)} :
           /\ paths' = Append(paths, imported.path)
           /\ idCounter' = imported.idCounter
           /\ minted' = minted \o [k \in 1..(imported.idCounter - idCounter)
                                       |-> MintedId(idCounter + k - 1)]
           /\ last' = [op |-> "importFromSVG", pathData |-> pathData,
                       before |-> paths, result |-> imported.path]
    /\ UNCHANGED <<editVars, penVars>>

NextAnyText == ImportAnyText

SpecAnyText == InitImport /\ [][NextAnyText]_vars

\* both coordinates are numbers
Defined(point) == IsNum(point.x) /\ IsNum(point.y)

\* C35: for any input text, also one with a command letter followed by
\* fewer numbers than the command takes or by a token that is no number,
\* importFromSVG returns, and every anchor and every handle of the path it
\* built has two defined numeric coordinates: no anchor is made from a
\* missing or undecodable argument.
C35_MalformedInputSkipped ==
    last.op = "importFromSVG" =>
        /\ last.result # Null =>
               \A k \in 1..Len(last.result.anchorPoints) :
                   LET point == last.result.anchorPoints[k]
                   IN  /\ Defined(point.position)
                       /\ point.handleIn # Null =>
                              Defined(point.handleIn.position)
                       /\ point.handleOut # Null =>
                              Defined(point.handleOut.position)
        /\ \A p \in 1..Len(paths) :
               \A k \in 1..Len(paths[p].anchorPoints) :
                   Defined(paths[p].anchorPoints[k].position)

\* the commands of the text that add an anchor whatever the path holds
AnchorCommands == {"L", "l", "H", "h", "V", "v", "C", "c", "S", "s"}

\* the first command of the list that is a move-to or an anchor command is a
\* move-to
RECURSIVE FirstAnchorFromMove(_)
FirstAnchorFromMove(commands) ==
    IF commands = <<>> THEN FALSE
    ELSE IF Head(commands).type \in {"M", "m"} THEN TRUE
    ELSE IF Head(commands).type \in AnchorCommands THEN FALSE
    ELSE FirstAnchorFromMove(Tail(commands))

\* C36: one importFromSVG call adds exactly one path to the store, whatever
\* the text contains, and leaves the other paths as they were; the number
\* of anchors of that path is 1 if its first anchor came from a move-to
\* (else 0) plus the number of line-to, horizontal, vertical, cubic and
\* smooth-cubic commands applied: a move-to adds an anchor only when the
\* path has none yet, and a later move-to adds none and starts no new path.
C36_OnePathPerImport ==
    last.op = "importFromSVG" =>
        LET commands == parseSVGPath(last.pathData)
            applied == SelectSeq(commands, LAMBDA cmd :
                                     cmd.type \in AnchorCommands)
        IN  /\ Len(paths) = Len(last.before) + 1
            /\ SubSeq(paths, 1, Len(last.before)) = last.before
            /\ paths[Len(paths)] = last.result
            /\ Len(last.result.anchorPoints) =
                   (IF FirstAnchorFromMove(commands) THEN 1 ELSE 0)
                       + Len(applied)

\* "M 0 0 L 5 5 M 9 9 L 1 1" has been imported as one path of three anchors,
\* the last line starting from the relocated current point
C36_Witness ==
    /\ last.op = "importFromSVG"
    /\ last.pathData = TextLaterMove
    /\ Len(paths) = Len(last.before) + 1
    /\ Len(last.result.anchorPoints) = 3
    /\ last.result.anchorPoints[3].position = Pt(1, 1)

\* a text that starts with a line-to has been imported: its move-to added
\* no anchor
C36_LineFirst ==
    /\ last.op = "importFromSVG"
    /\ last.pathData = TextLineFirst
    /\ Len(last.result.anchorPoints) = 2

----------------------------------------------------------------------------
(* The edit machine hovering, inserting, selecting, dragging and deleting
   (SpecMachine): pointer-down, pointer-move (hover when idle, drag
   otherwise), pointer-up, double-click, and the keys Shift, Delete and
   Backspace, in any order.  Two paths: a lone anchor far from every pointer,
   and a straight piece from b = (0, 100) to c = (100, 100).  The pointer
   goes down on b and on the sample (88, 100) of the piece, and moves to
   (88, 95) and (0, 25): b dragged there leaves the piece b-c with a length
   of 13 or 125, so that the directions createDefaultHandles derives are
   exact. *)

\* double-clicks are followed while fewer than MaxMachineIds ids are minted
MaxMachineIds == 6

\* on b; on the sample (88, 100) of the piece b-c
MachineDownPointers == {Pt(0, 100), Pt(88, 100)}

\* at distance 5 of the piece b-c, over its sample (88, 100); far from it
MachineMovePointers == {Pt(88, 95), Pt(0, 25)}

MachineKeys == {"Shift", "Delete", "Backspace"}

\* the keys whose release the machine reads
MachineModifiers == {"Shift"}

MachinePaths ==
    <<addAnchorPoint(NewPath(MintedId(0)), MintedId(1), Pt(-200, -200),
                     Null, Null),
      addAnchorPoint(
          addAnchorPoint(NewPath(MintedId(2)), MintedId(3), Pt(0, 100),
                         Null, Null),
          MintedId(4), Pt(100, 100), Null, Null)>>

InitMachine == InitOn(MachinePaths, 5)

\* every segment of the store is a straight piece between anchors without
\* handles: the samples of the hover preview then have denominator 50
Straight(allPaths) ==
    \A p \in 1..Len(allPaths) :
        Len(allPaths[p].anchorPoints) >= 2 =>
            \A k \in 1..Len(allPaths[p].anchorPoints) :
                /\ allPaths[p].anchorPoints[k].handleIn = Null
                /\ allPaths[p].anchorPoints[k].handleOut = Null

MachineDown == \E position \in MachineDownPointers : MouseDown(position)

\* onMouseMove(position); the hover preview is followed over straight pieces
MachineMove ==
    \E position \in MachineMovePointers :
        /\ isDragging \/ Straight(paths)
        /\ onMouseMove(position)
        /\ UNCHANGED penVars
        /\ last' = [op |-> "onMouseMove", position |-> position,
                    calls |-> onMouseMoveCalls]
        /\ UNCHANGED <<keyVars, dragOrigin>>

MachineUp == MouseUp

MachineDoubleClick ==
    /\ idCounter < MaxMachineIds
    /\ OnDoubleClick

MachineKeyDown == \E key \in MachineKeys : PressKey(key)

MachineKeyUp == \E key \in MachineModifiers : ReleaseKey(key)

NextMachine ==
    \/ MachineDown
    \/ MachineMove
    \/ MachineUp
    \/ MachineDoubleClick
    \/ MachineKeyDown
    \/ MachineKeyUp

SpecMachine == InitMachine /\ [][NextMachine]_vars

----------------------------------------------------------------------------
(* Claims about the edit machine under all of its events (SpecMachine) *)

\* C37: in every state reached through pointer, double-click and key events,
\* an anchor that is in a path of the store has its selected flag set exactly
\* when getSelectedPoints returns it: the per-anchor flags and the machine's
\* set of selected ids agree.
C37_FlagsAgreeWithSelection ==
    \A point \in StoreAnchors :
        point.selected <=> point.id \in getSelectedPoints(paths,
                                                         selectedPoints)

\* an inserted anchor and a clicked one are selected together, next to an
\* anchor that is not
C37_Witness ==
    /\ \E point \in StoreAnchors : point.selected /\ point.id = MintedId(5)
    /\ \E point \in StoreAnchors : point.selected /\ point.id = MintedId(3)
    /\ \E point \in StoreAnchors : ~point.selected

\* some segment of the path has a sample at distance less than 1 of the point
SampleWithinOne(path, point) ==
    \E i \in 1..Len(getSegments(path)) :
        \E k \in 0..samples :
            RLess(SquaredDistance(
                      point,
                      SamplePoint(getSegments(path)[i],
                                  RDiv(I(k), I(samples)))),
                  I(1))

\* the ids of the anchors of a path, in path order
AnchorIds(path) ==
    [k \in 1..Len(path.anchorPoints) |-> path.anchorPoints[k].id]

\* C39: a double-click when no hover preview is active, or when no segment of
\* the hovered path has a sample within distance 1 of the recorded hover
\* point, returns false; a double-click that returns false leaves every
\* path, the selection and the hover state unchanged; a double-click that
\* returns true inserts exactly one anchor, into the hovered path only (the
\* other anchors of that path stay in order, the other paths stay as they
\* were), selects it and clears the hover preview.
C39_DoubleClickFrame ==
    [][last'.op = "onDoubleClick" =>
         LET hovering == hoverPreviewPoint # Null /\ hoverPreviewPath # Null
         IN  /\ ~hovering => ~last'.result
             /\ (hovering
                   /\ ~SampleWithinOne(
                          paths[PathIndex(paths, hoverPreviewPath)],
                          hoverPreviewPoint)) => ~last'.result
             /\ ~last'.result =>
                    /\ paths' = paths
                    /\ selectedPoints' = selectedPoints
                    /\ hoverPreviewPoint' = hoverPreviewPoint
                    /\ hoverPreviewPath' = hoverPreviewPath
             /\ last'.result =>
                    /\ hovering
                    /\ Len(paths') = Len(paths)
                    /\ \A p \in 1..Len(paths) :
                           paths[p].id # hoverPreviewPath =>
                               paths'[p] = paths[p]
                    /\ LET p == PathIndex(paths, hoverPreviewPath)
                           old == AnchorIds(paths[p])
                           new == AnchorIds(paths'[p])
                       IN  \E k \in 1..Len(new) :
                               /\ Len(new) = Len(old) + 1
                               /\ old = SubSeq(new, 1, k - 1)
                                           \o SubSeq(new, k + 1, Len(new))
                               /\ \A q \in 1..Len(paths) :
                                      \A j \in 1..Len(paths[q].anchorPoints) :
                                          paths[q].anchorPoints[j].id # new[k]
                               /\ paths'[p].anchorPoints[k].position
                                      = hoverPreviewPoint
                               /\ paths'[p].anchorPoints[k].selected
                               /\ selectedPoints'
                                      = selectedPoints \cup {new[k]}
                    /\ hoverPreviewPoint' = Null
                    /\ hoverPreviewPath' = Null]_vars

\* a double-click has returned false although a hover preview is recorded:
\* the hovered piece was dragged away from it
C39_Witness ==
    /\ last.op = "onDoubleClick"
    /\ ~last.result
    /\ hoverPreviewPoint # Null
    /\ Len(paths[2].anchorPoints) >= 2

\* a double-click has inserted an anchor into the piece b-c
C39_Inserted ==
    /\ last.op = "onDoubleClick"
    /\ last.result
    /\ Len(paths[2].anchorPoints) = 3
    /\ Len(paths[1].anchorPoints) = 1

----------------------------------------------------------------------------
(* The edit machine dragging and deleting (SpecDelete): pointer-down,
   pointer-move, pointer-up, Alt down and up, Delete and Backspace, in any
   order, a second pointer-down without a pointer-up in between included.
   Two paths of one anchor with an out-handle each: a at (104, -2), its
   handle ending at (104, 4), and a bystander that no pointer-down hits. *)

\* on the out-handle of a; on a, away from its handle
DeleteDownPointers == {Pt(104, 4), Pt(104, -8)}

DeleteMovePointers == {Pt(0, 0), Pt(104, 4)}

DeleteKeys == {"Alt", "Delete", "Backspace"}

DeletePaths ==
    <<HandlePath(0, Pt(104, -2), Pt(0, 6), Mirrored),
      HandlePath(2, Pt(0, 50), Pt(30, 40), Independent)>>

InitDelete == InitOn(DeletePaths, 4)

DeleteDown == \E position \in DeleteDownPointers : MouseDown(position)

DeleteMove ==
    \E position \in DeleteMovePointers :
        /\ onMouseMove(position)
        /\ UNCHANGED penVars
        /\ last' = [op |-> "onMouseMove", position |-> position,
                    calls |-> onMouseMoveCalls]
        /\ UNCHANGED <<keyVars, dragOrigin>>

DeleteUp == MouseUp

DeleteKeyDown == \E key \in DeleteKeys : PressKey(key)

DeleteKeyUp == ReleaseKey("Alt")

NextDelete ==
    \/ DeleteDown
    \/ DeleteMove
    \/ DeleteUp
    \/ DeleteKeyDown
    \/ DeleteKeyUp

SpecDelete == InitDelete /\ [][NextDelete]_vars

----------------------------------------------------------------------------
(* Claims about the drag state (SpecDelete) *)

\* Idle, DraggingPoint or DraggingHandle: the drag flag, the drag type and
\* the drag target are all clear, or all set
OneDragState ==
    \/ /\ ~isDragging
       /\ dragType = None
       /\ dragTarget = Null
    \/ /\ isDragging
       /\ dragType \in {"point", "handle-in", "handle-out"}
       /\ dragTarget # Null

\* the position is within the hit threshold of an anchor of the store or of
\* the end of a visible handle
HitAt(allPaths, position) ==
    \E p \in 1..Len(allPaths) :
        \E k \in 1..Len(allPaths[p].anchorPoints) :
            LET point == allPaths[p].anchorPoints[k]
                near(q) == WithinThreshold(SquaredDistance(position, q),
                                           I(hitThreshold))
            IN  \/ near(point.position)
                \/ /\ Visible(point.handleIn)
                   /\ near(add(point.position, point.handleIn.position))
                \/ /\ Visible(point.handleOut)
                   /\ near(add(point.position, point.handleOut.position))

\* C38: the edit machine is always in exactly one of Idle, DraggingPoint and
\* DraggingHandle (drag flag, drag type and drag target all set or all
\* clear); onMouseDown returns true exactly when the position hits a handle
\* or an anchor, and it has then started a drag from that position, while a
\* pointer-down that returns false leaves the drag state alone; after a
\* pointer-up the machine is Idle with no drag target, no start position, no
\* initial anchor position and no saved mirror mode.
C38_OneDragState ==
    [][/\ OneDragState
       /\ OneDragState'
       /\ last'.op = "onMouseDown" =>
              /\ last'.result <=> HitAt(paths, last'.position)
              /\ last'.result =>
                     /\ isDragging'
                     /\ dragTarget' # Null
                     /\ dragTarget'.detached = Null
                     /\ dragStartPos' = last'.position
              /\ ~last'.result =>
                     UNCHANGED <<isDragging, dragType, dragTarget,
                                 dragStartPos, initialPointPos>>
       /\ last'.op = "onMouseUp" =>
              /\ ~isDragging'
              /\ dragType' = None
              /\ dragTarget' = Null
              /\ dragStartPos' = Null
              /\ initialPointPos' = Null
              /\ originalMirrorMode' = None]_vars

\* a pointer-up with Alt held has ended a drag, the out-handle of a having
\* been dragged away
C38_Witness ==
    /\ last.op = "onMouseUp"
    /\ NoDrag
    /\ isAltPressed
    /\ \E point \in StoreAnchors :
           /\ point.id = MintedId(1)
           /\ point.handleOut.position # Pt(0, 6)

\* the shape of a path: its anchors in order with their positions, handles
\* and mirror modes
AnchorShapes(path) ==
    [k \in 1..Len(path.anchorPoints) |->
        [id |-> path.anchorPoints[k].id,
         position |-> path.anchorPoints[k].position,
         handleIn |-> path.anchorPoints[k].handleIn,
         handleOut |-> path.anchorPoints[k].handleOut,
         mirrorMode |-> path.anchorPoints[k].mirrorMode]]

\* C40: when the anchor being dragged, as a point or through one of its
\* handles, has been deleted by Delete or Backspace while the drag is in
\* progress, every later pointer-move and the pointer-up complete, do not
\* put the anchor back into a path, and leave the anchor sequence, the
\* positions and the handles of every path of the store unchanged.
C40_DragAfterDelete ==
    [][(/\ dragTarget # Null
        /\ dragTarget.detached # Null
        /\ last'.op \in {"onMouseMove", "onMouseUp"}) =>
           /\ Len(paths') = Len(paths)
           /\ \A p \in 1..Len(paths) :
                  AnchorShapes(paths'[p]) = AnchorShapes(paths[p])
           /\ \A point \in StoreAnchors : point.id # dragTarget.point]_vars

\* a pointer-move has moved the handle of the deleted anchor a: the anchor is
\* no longer in its path, and the handle of the removed object points to the
\* pointer
C40_Witness ==
    /\ last.op = "onMouseMove"
    /\ last.position = Pt(0, 0)
    /\ isDragging
    /\ dragType = "handle-out"
    /\ dragTarget # Null
    /\ dragTarget.detached # Null
    /\ dragTarget.detached.handleOut.position = Pt(-104, 2)
    /\ Len(paths[1].anchorPoints) = 0

\* a pointer-move has followed the deletion of the anchor dragged as a point
C40_PointDragAfterDelete ==
    /\ last.op = "onMouseMove"
    /\ isDragging
    /\ dragType = "point"
    /\ dragTarget # Null
    /\ dragTarget.detached # Null
    /\ Len(paths[1].anchorPoints) = 0

====
